---- MODULE Spec2Model ----
(***************************************************************************)
(* Process/service supervision of bdd-vitest (src/src/mock-ai.ts, the      *)
(* service section: startService, waitForReady, stopProcess,               *)
(* startCluster, checkGpu, the zombie registry and its killAll sweep).     *)
(*                                                                         *)
(* The host is a single-threaded event loop.  Every action below is one    *)
(* callback (timer, stream data, child exit, fetch completion, a call made *)
(* by the test) or one promise continuation.  Continuations are            *)
(* microtasks: while one is runnable no callback runs (Quiescent).         *)
(* Time is abstract: a timer that is armed may fire at any later step.     *)
(***************************************************************************)
EXTENDS Naturals, Sequences, FiniteSets, TLC

\* ------------------------------------------------------------- bounds
NumServices == 3
MaxOut == 2
MaxStops == 2
MaxInflight == 1
\* startup times and limits are 0..MaxMs, memory figures 0..MaxMb
MaxMs == 3
MaxMb == 1
\* requests a mock server receives
MaxReq == 3
\* mockFetch instances installed, fetch calls made
MaxInstalls == 2
MaxFetches == 4
\* kill() calls made on the handle startProcess returned
MaxKills == 2
\* complete() calls made on a mock provider, reset() calls
MaxCalls == 4
MaxResets == 1

Members == 1..NumServices

\* ---------------------------------------------------------- vocabulary
\* ready descriptor shapes: {signal}, {url}, {signal,url}, {}
Kinds == {"signal", "url", "both", "none"}
\* the shapes given to the members of a cluster: one that can become
\* ready and one that cannot
ClusterKinds == {"signal", "none"}
\* the config of a startService call that has not been made
NoConfig == "unset"
\* exit codes a child may report; "null" is JavaScript's null
ExitCodes == {"0", "1"}
\* what onexit stores in exitCode after a failed spawn (-ENOENT)
SpawnErrno == "-2"
Null == "null"
Chars == {"a", "b"}
\* the configured ready.signal, a two-character text
ReadySignal == <<"a", "b">>

VARIABLES
  config,          \* config[i]: shape of configs[i].ready
  proc,            \* proc[i]: the ChildProcess: status, cause, killed
  stdout,          \* stdout[i]: text accumulated from the child's stdout
  stderr,          \* stderr[i]: text accumulated from the child's stderr
  ready,           \* ready[i]: the waitForReady promise, its timers, its polls
  call,            \* call[i]: the startService call: where it is, what it threw
  stops,           \* stops[i]: the stopProcess calls made on proc i, in call order
  log,             \* log[i]: every proc.kill made on proc i, in order
  activeProcesses, \* the zombie registry
  cluster,         \* the startCluster call
  host,            \* the host process: running?, the uncaught 'error' events
  ghost,           \* ghost[i]: history read by the properties only
  perf,            \* an assertPerformance call: its arguments, its outcome
  srv,             \* a mock server: calls, requests, the requests it got
  mf,              \* globalThis.fetch, the mockFetch instances, the calls
  prov,            \* a mock provider: options, stats, the calls in flight
  scen,            \* a level scenario run: its phases, where it is, what ran
  mp               \* a startProcess call: the child, the promise, the kill() calls

\* the service module's state
svcVars == <<config, proc, stdout, stderr, ready, call, stops, log,
             activeProcesses, cluster, host, ghost>>

\* the state of the helpers that start no process
mockVars == <<perf, srv, mf, prov, scen, mp>>

vars == <<svcVars, mockVars>>

\* ------------------------------------------------------- ChildProcess
\* status: "none" not spawned, "running", "dead" (terminated, the exit not
\* yet delivered to the host: the handle is still open), "reaped" (the
\* 'exit' event has been emitted, the handle is closed), "failed" (spawn
\* returned a ChildProcess for a command the OS could not start; its
\* onexit is queued with process.nextTick).
\* cause: "none", an exit code, "signal" (terminated by a signal), or the
\* negative errno of a failed spawn.
NoProc == [status |-> "none", cause |-> "none", killed |-> FALSE]

\* proc.exitCode: set by the 'exit' event, and only for a normal exit;
\* a child terminated by a signal gets signalCode and keeps exitCode null.
ExitCode(p) ==
  IF p.status = "reaped" /\ p.cause \in ExitCodes \cup {SpawnErrno}
  THEN p.cause ELSE Null

\* proc.kill(sig) returns true iff the handle is still open
KillDelivered(p) == p.status \in {"running", "dead"}

\* proc.kill(sig): with an open handle the signal is sent and proc.killed
\* is set; SIGKILL terminates a running child, SIGTERM leaves it to the
\* child (it may die of it, exit by itself, or ignore it).  With a closed
\* handle nothing changes and nothing throws.
Kill(p, sig) ==
  IF KillDelivered(p)
  THEN [p EXCEPT !.killed = TRUE,
                 !.status = IF sig = "SIGKILL" THEN "dead" ELSE @,
                 !.cause = IF sig = "SIGKILL" /\ p.status = "running"
                           THEN "signal" ELSE @]
  ELSE p

KillEntry(p, sig, by, k) ==
  [sig |-> sig, by |-> by, k |-> k, ok |-> KillDelivered(p)]

\* ------------------------------------------------------ text helpers
\* String.prototype.includes
Includes(text, pat) ==
  \E k \in 0..Len(text) :
    /\ k + Len(pat) <= Len(text)
    /\ SubSeq(text, k + 1, k + Len(pat)) = pat

\* () => stdout + stderr
GetOutput(i) == stdout[i] \o stderr[i]

\* ----------------------------------------------------- RunningService
\* Faulty variant: isAlive that looks at the exit code only
IsAliveExitCodeOnly(p) == ExitCode(p) = Null

\* isAlive: () => !proc.killed && proc.exitCode === null
IsAlive(p) == ~p.killed /\ ExitCode(p) = Null

\* the guard of stopProcess: proc.killed || proc.exitCode !== null
StopReturnsEarly(p) == p.killed \/ ExitCode(p) # Null

\* ------------------------------------------------------ waitForReady
NoErr == [kind |-> "none", tag |-> 0, code |-> Null]
\* `[${name}] Not ready within ${timeoutMs}ms. ...`
TimeoutErr(i) == [kind |-> "timeout", tag |-> i, code |-> Null]
\* `[${name}] Exited with code ${proc.exitCode} before ready. ...`
ExitedErr(i, code) == [kind |-> "exited", tag |-> i, code |-> code]
\* `[${name}] No ready signal or URL configured`
ConfigErr(i) == [kind |-> "config", tag |-> i, code |-> Null]

\* `[${name}] Requires GPU but none detected. ...`
GpuErr(i) == [kind |-> "gpu", tag |-> i, code |-> Null]
\* the ErrnoException thrown by spawn itself: the OS message, no [name]
SpawnErr == [kind |-> "spawn", tag |-> 0, code |-> Null]

\* Faulty variant: a descriptor with both a signal and a url is polled
StrategyPrefersUrl(kind) ==
  IF kind \in {"url", "both"} THEN "url"
  ELSE IF kind = "signal" THEN "signal" ELSE "none"

\* if (ready.signal) ... else if (ready.url) ... else ...
Strategy(kind) ==
  IF kind \in {"signal", "both"} THEN "signal"
  ELSE IF kind = "url" THEN "url" ELSE "none"

NoReady ==
  [promise |-> "none", err |-> NoErr, timeout |-> FALSE,
   interval |-> FALSE, inflight |-> 0]

\* Faulty variant: a resolve that overwrites a settled promise
ResolveOverwrites(r) == [r EXCEPT !.promise = "resolved", !.err = NoErr]

\* resolve(): a promise settles once, later calls do nothing
Resolve(r) ==
  IF r.promise = "pending" THEN [r EXCEPT !.promise = "resolved"] ELSE r

\* reject(e)
Reject(r, e) ==
  IF r.promise = "pending"
  THEN [r EXCEPT !.promise = "rejected", !.err = e] ELSE r

\* The promise executor: the start timer is armed first; then the signal
\* strategy arms the 50 ms check, the url strategy arms the poll, and a
\* descriptor with neither clears the timer and rejects.
WaitForReady(i, kind) ==
  LET r0 == [NoReady EXCEPT !.promise = "pending", !.timeout = TRUE]
  IN  IF Strategy(kind) = "none"
      THEN Reject([r0 EXCEPT !.timeout = FALSE], ConfigErr(i))
      ELSE [r0 EXCEPT !.interval = TRUE]

\* The body of the 50 ms interval of the signal strategy:
\*   if (check()) clearInterval(interval);
\*   if (proc.exitCode !== null) { clearInterval; clearTimeout; reject }
SignalCheck(i, r, p, out) ==
  LET r1 == IF Includes(out, ReadySignal)
            THEN Resolve([r EXCEPT !.timeout = FALSE, !.interval = FALSE])
            ELSE r
  IN  IF ExitCode(p) # Null
      THEN Reject([r1 EXCEPT !.timeout = FALSE, !.interval = FALSE],
                  ExitedErr(i, ExitCode(p)))
      ELSE r1

\* Faulty variant: a start timer whose callback does not reject
StartTimeoutNoReject(i, r) == [r EXCEPT !.timeout = FALSE]

\* The start timer's callback, on the promise: reject with the timeout
\* error.  It clears no interval.
StartTimeout(i, r) == Reject([r EXCEPT !.timeout = FALSE], TimeoutErr(i))

\* Faulty variant: a successful poll resolves and leaves the start timer
\* armed
PollResultKeepsTimer(r, ok) ==
  LET r1 == [r EXCEPT !.inflight = @ - 1]
  IN  IF ok THEN Resolve([r1 EXCEPT !.interval = FALSE]) ELSE r1

\* The url strategy, a fetch that completed: on res.ok clearInterval,
\* clearTimeout, resolve; otherwise (not ok, or the fetch threw) nothing.
PollResult(r, ok) ==
  LET r1 == [r EXCEPT !.inflight = @ - 1]
  IN  IF ok THEN Resolve([r1 EXCEPT !.timeout = FALSE, !.interval = FALSE])
      ELSE r1

\* ------------------------------------------------------- stopProcess
\* Faulty variant: stopProcess arms no forceKill timer
StopRecNoTimer(p) ==
  IF StopReturnsEarly(p)
  THEN [st |-> "resolved", timer |-> FALSE, by |-> "early",
        pre |-> p.status, preKilled |-> p.killed]
  ELSE [st |-> "waiting", timer |-> FALSE, by |-> "none",
        pre |-> p.status, preKilled |-> p.killed]

\* One stopProcess call: st, the forceKill timer, how it resolved, and
\* (history) what the ChildProcess was when it was called.
StopRec(p) ==
  IF StopReturnsEarly(p)
  THEN [st |-> "resolved", timer |-> FALSE, by |-> "early",
        pre |-> p.status, preKilled |-> p.killed]
  ELSE [st |-> "waiting", timer |-> TRUE, by |-> "none",
        pre |-> p.status, preKilled |-> p.killed]

\* Faulty variant: the 'exit' listener resolves and leaves the forceKill timer armed
StopOnExitKeepsTimer(s) ==
  IF s.st = "waiting"
  THEN [s EXCEPT !.st = "resolved", !.by = "exit"]
  ELSE s

\* The 'exit' listener of a waiting stop: clearTimeout(forceKill); resolve()
StopOnExit(s) ==
  IF s.st = "waiting"
  THEN [s EXCEPT !.st = "resolved", !.timer = FALSE, !.by = "exit"]
  ELSE s

\* The forceKill timer's callback, on the stop call: resolve()
StopOnForceKill(s) ==
  [s EXCEPT !.st = "resolved", !.timer = FALSE,
            !.by = IF s.st = "waiting" THEN "timer" ELSE @]

\* stopProcess(proc, name, timeoutMs) up to its return: nothing when
\* StopReturnsEarly; otherwise the forceKill timer and the exit listener
\* are set and SIGTERM is sent.
StopProcess(i) ==
  /\ stops' = [stops EXCEPT ![i] = Append(@, StopRec(proc[i]))]
  /\ IF StopReturnsEarly(proc[i])
     THEN UNCHANGED <<proc, log>>
     ELSE /\ proc' = [proc EXCEPT ![i] = Kill(@, "SIGTERM")]
          /\ log' = [log EXCEPT ![i] =
                       Append(@, KillEntry(proc[i], "SIGTERM", "stop",
                                           Len(stops[i]) + 1))]

\* ------------------------------------------------------ startService
NoCall == [pc |-> "idle", err |-> NoErr]

\* Faulty variant: spawn without registerProcess
StartServiceUnregistered(i, kind) ==
  /\ call[i].pc \in {"idle", "gpuFound"}
  /\ config' = [config EXCEPT ![i] = kind]
  /\ proc' = [proc EXCEPT ![i] = [NoProc EXCEPT !.status = "running"]]
  /\ activeProcesses' = activeProcesses
  /\ ready' = [ready EXCEPT ![i] = WaitForReady(i, kind)]
  /\ call' = [call EXCEPT ![i].pc = "awaiting"]

\* startService from spawn to `await waitForReady(...)`: spawn,
\* registerProcess, the data listeners, the promise executor.
StartService(i, kind) ==
  /\ call[i].pc \in {"idle", "gpuFound"}
  /\ config' = [config EXCEPT ![i] = kind]
  /\ proc' = [proc EXCEPT ![i] = [NoProc EXCEPT !.status = "running"]]
  /\ activeProcesses' = activeProcesses \cup {i}
  /\ ready' = [ready EXCEPT ![i] = WaitForReady(i, kind)]
  /\ call' = [call EXCEPT ![i].pc = "awaiting"]

\* The same, for a command the OS cannot start with one of the errors
\* Node defers (ENOENT, EACCES, ...): spawn still returns a ChildProcess,
\* which is registered and waited for like any other.
StartServiceSpawnFails(i, kind) ==
  /\ call[i].pc \in {"idle", "gpuFound"}
  /\ config' = [config EXCEPT ![i] = kind]
  /\ proc' = [proc EXCEPT ![i] = [NoProc EXCEPT !.status = "failed",
                                                !.cause = SpawnErrno]]
  /\ activeProcesses' = activeProcesses \cup {i}
  /\ ready' = [ready EXCEPT ![i] = WaitForReady(i, kind)]
  /\ call' = [call EXCEPT ![i].pc = "awaiting"]

\* The same, for an error spawn throws at once: startService rejects with
\* it before registerProcess is reached.
StartServiceSpawnThrows(i, kind) ==
  /\ call[i].pc \in {"idle", "gpuFound"}
  /\ config' = [config EXCEPT ![i] = kind]
  /\ call' = [call EXCEPT ![i] = [pc |-> "threw", err |-> SpawnErr]]
  /\ UNCHANGED <<proc, activeProcesses, ready>>

\* ----------------------------------------------------------- killAll
\* Faulty variant: a sweep that clears the registry and kills nothing
KillAllSendsNothing(procs) == procs

\* for (const proc of activeProcesses) try { proc.kill("SIGKILL") } catch {}
KillAll(procs) ==
  [i \in Members |->
     IF i \in activeProcesses THEN Kill(procs[i], "SIGKILL") ELSE procs[i]]

\* the proc.kill calls of one sweep, as they are logged
KillAllLog(procs) ==
  [i \in Members |->
     IF i \in activeProcesses
     THEN Append(log[i], KillEntry(procs[i], "SIGKILL", "sweep", 0))
     ELSE log[i]]

\* ------------------------------------------------------- event loop
NoCluster ==
  [pc |-> "idle", services |-> <<>>, at |-> 0, stopReqs |-> <<>>,
   err |-> NoErr]

\* History, written by the actions and read by the properties only:
\*   sigEver       the combined output has contained the ready signal
\*   sigInTime     ... while the child was running and the start timer
\*                 had not elapsed
\*   earlyExit     the child exited with a non-zero code while readiness
\*                 was awaited and the signal had not been in the output
\*   diedEarly     the child terminated, with any code or by a signal,
\*                 while readiness was awaited and the signal had not
\*                 been in the output
\*   timerFired    the start timer's callback has run
\*   urlOk         a poll has returned success
\*   aliveAtReturn isAlive() at the moment startService resolved
\*   hist          the chunks of both streams, in the order they arrived
\*   histInTime    hist has contained the ready signal while the child
\*                 was running and the start timer had not elapsed
NoGhost ==
  [sigEver |-> FALSE, sigInTime |-> FALSE, earlyExit |-> FALSE,
   diedEarly |-> FALSE, timerFired |-> FALSE, urlOk |-> FALSE,
   aliveAtReturn |-> FALSE, hist |-> <<>>, histInTime |-> FALSE]

\* The history is kept for the services the test starts itself; the
\* cluster properties read none of it.
Note(i, g) == IF cluster.pc = "idle" THEN [ghost EXCEPT ![i] = g] ELSE ghost

SawOutput(g, out, p, r) ==
  [g EXCEPT !.sigEver = @ \/ Includes(out, ReadySignal),
            !.sigInTime = @ \/ (/\ Includes(out, ReadySignal)
                                /\ p.status = "running"
                                /\ r.timeout)]

Arrived(g, chunk, p, r) ==
  LET h == g.hist \o chunk
  IN  [g EXCEPT !.hist = h,
                !.histInTime = @ \/ (/\ Includes(h, ReadySignal)
                                     /\ p.status = "running"
                                     /\ r.timeout)]

\* Faulty variant: the rollback walks services in start order
ReverseForgotten(seq) == seq

\* Array.prototype.reverse
Reverse(seq) == [k \in 1..Len(seq) |-> seq[Len(seq) + 1 - k]]

\* the member startCluster is starting: services.length + 1
Cur == Len(cluster.services) + 1

\* the member whose stop the rollback awaits (services was reversed in place)
RollbackMember == cluster.services[cluster.at]

\* the member whose stop stopAll awaits (it walks a reversed copy)
StopAllMember == Reverse(cluster.services)[cluster.at]

SvcResumable(i) ==
  host.up /\ call[i].pc = "awaiting" /\ ready[i].promise # "pending"

\* startService is suspended at `await checkGpu()`; execSync has answered
GpuResumable(i) == host.up /\ call[i].pc \in {"gpuFound", "gpuMissing"}

\* the onexit of a failed spawn is queued with process.nextTick
SpawnErrorQueued(i) == host.up /\ proc[i].status = "failed"

ClusterResumable ==
  \/ /\ cluster.pc = "awaitStart"
     /\ host.up
     /\ call[Cur].pc \in {"returned", "threw"}
  \/ /\ cluster.pc = "awaitStop"
     /\ host.up
     /\ stops[RollbackMember][Len(stops[RollbackMember])].st = "resolved"
  \/ /\ cluster.pc = "awaitStopAll"
     /\ host.up
     /\ stops[StopAllMember][Len(stops[StopAllMember])].st = "resolved"

\* the host is running and nothing is queued ahead of the event loop (no
\* promise continuation, no nextTick callback): the loop takes the next
\* callback
Quiescent ==
  /\ host.up
  /\ ~ClusterResumable
  /\ \A i \in Members :
       ~SvcResumable(i) /\ ~GpuResumable(i) /\ ~SpawnErrorQueued(i)

\* ------------------------------------------------------------ actions
TypeOK ==
  /\ config \in [Members -> Kinds \cup {NoConfig}]
  /\ \A i \in Members :
       /\ proc[i].status \in {"none", "running", "dead", "reaped", "failed"}
       /\ Len(stdout[i]) + Len(stderr[i]) <= MaxOut
       /\ ready[i].inflight \in 0..MaxInflight
       /\ Len(stops[i]) <= MaxStops
  /\ activeProcesses \subseteq Members
  /\ host.up \in BOOLEAN
  /\ host.uncaught \subseteq Members

\* ---------------------------------------------------- assertPerformance
\* An optional number is <<>> (undefined, or null for stats().memoryMb)
\* or <<n>>.
Opt(S) == {<<>>} \cup {<<n>> : n \in S}

ServiceNames == {"test", "slow"}

NoPerfErr == [text |-> "", tag |-> "", actual |-> 0, limit |-> 0]
\* `[${service.name}] Startup too slow: ${startupMs}ms > ${maxStartupMs}ms`
\* `[${service.name}] Memory too high: ${memoryMb}MB > ${maxMemoryMb}MB`
PerfErr(text, service, actual, limit) ==
  [text |-> text, tag |-> service.name, actual |-> actual, limit |-> limit]

\* Faulty variant: a startup time equal to the limit is too slow
AssertPerformanceAtLeast(service, requirements) ==
  IF /\ requirements.maxStartupMs # <<>>
     /\ service.startupMs >= requirements.maxStartupMs[1]
  THEN [st |-> "threw",
        err |-> PerfErr("Startup too slow", service, service.startupMs,
                        requirements.maxStartupMs[1])]
  ELSE [st |-> "returned", err |-> NoPerfErr]

\* assertPerformance(service, requirements): what the call does
AssertPerformance(service, requirements) ==
  IF /\ requirements.maxStartupMs # <<>>
     /\ service.startupMs > requirements.maxStartupMs[1]
  THEN [st |-> "threw",
        err |-> PerfErr("Startup too slow", service, service.startupMs,
                        requirements.maxStartupMs[1])]
  ELSE IF /\ requirements.maxMemoryMb # <<>>
          /\ service.memoryMb # <<>>
          /\ service.memoryMb[1] > requirements.maxMemoryMb[1]
       THEN [st |-> "threw",
             err |-> PerfErr("Memory too high", service,
                             service.memoryMb[1],
                             requirements.maxMemoryMb[1])]
       ELSE [st |-> "returned", err |-> NoPerfErr]

\* no assertPerformance call
NoPerf ==
  [service |-> [name |-> "test", startupMs |-> 0, memoryMb |-> <<>>],
   requirements |-> [maxStartupMs |-> <<>>, maxMemoryMb |-> <<>>],
   result |-> [st |-> "notCalled", err |-> NoPerfErr]]

\* ----------------------------------------------------------- mockServer
Min(a, b) == IF a < b THEN a ELSE b

Methods == {"GET", "POST"}
Paths == {"/submit", "/any", "/nope"}
\* request bodies: a JSON text and a text that is not JSON
Bodies == {"{\"msg\":1}", "hello"}

\* `${method} ${pathname}`; "* /any" is <<"*", "/any">> and the bare key
\* "/submit" is <<"", "/submit">>
RouteKey(method, pathname) == <<method, pathname>>

\* MockResponse values: an object with status/body, a status code
Raw503 == [kind |-> "object", status |-> <<503>>, body |-> <<"overloaded">>]
Raw200 == [kind |-> "object", status |-> <<>>, body |-> <<"ok">>]
Raw204 == [kind |-> "number", status |-> <<204>>, body |-> <<>>]
RawPlain == [kind |-> "plain", status |-> <<>>, body |-> <<"first">>]

\* The routes the server is created with: an array under an exact key, an
\* array under a wildcard method, a single status code under a bare path.
RouteKeys == {<<"POST", "/submit">>, <<"*", "/any">>, <<"", "/submit">>}
Routes ==
  [k \in RouteKeys |->
     IF k = <<"POST", "/submit">>
     THEN [array |-> TRUE, rs |-> <<Raw503, Raw200>>]
     ELSE IF k = <<"*", "/any">>
          THEN [array |-> TRUE, rs |-> <<RawPlain, Raw200>>]
          ELSE [array |-> FALSE, rs |-> <<Raw204>>]]

\* routes[routeKey] ?? routes[`* ${pathname}`] ?? routes[pathname];
\* <<>> is undefined
Lookup(method, pathname) ==
  IF RouteKey(method, pathname) \in RouteKeys
  THEN RouteKey(method, pathname)
  ELSE IF <<"*", pathname>> \in RouteKeys THEN <<"*", pathname>>
       ELSE IF <<"", pathname>> \in RouteKeys THEN <<"", pathname>>
            ELSE <<>>

\* JSON.stringify(v), and the empty body
Json(v) == <<"json", v>>
NoBody == <<>>

\* no response yet
NoRes == [status |-> 0, body |-> NoBody, error |-> <<>>, available |-> {}]

\* normalizeResponse
NormalizeResponse(raw) ==
  IF raw.kind = "number"
  THEN [NoRes EXCEPT !.status = raw.status[1]]
  ELSE IF raw.kind = "object"
       THEN [NoRes EXCEPT
               !.status = IF raw.status = <<>> THEN 200 ELSE raw.status[1],
               !.body = IF raw.body = <<>> THEN NoBody ELSE Json(raw.body[1])]
       ELSE [NoRes EXCEPT !.status = 200, !.body = Json(raw.body[1])]

\* the 404 answer: { error: `No mock for ${routeKey}`, available: keys }
NotFound(key) ==
  [status |-> 404, body |-> NoBody, error |-> key, available |-> RouteKeys]

\* try { JSON.parse(body) } catch { body }
IsJson(body) == body = "{\"msg\":1}"
Recorded(body) ==
  IF IsJson(body) THEN [parsed |-> TRUE, of |-> body]
  ELSE [parsed |-> FALSE, of |-> body]

\* Array.isArray(route) ? route[Math.min(callIndex, route.length - 1)]
\*                       : route
PickResponse(route, callIndex) ==
  IF route.array THEN route.rs[Min(callIndex, Len(route.rs) - 1) + 1]
  ELSE route.rs[1]

RequestKeys == {RouteKey(m, q) : m \in Methods, q \in Paths}

\* A server that listens and has received nothing.  reqs holds the
\* requests in the order they arrived, done the positions of those whose
\* handler has finished, in that order; overlap says that a request has
\* arrived while another one's body was being read.
NoSrv ==
  [calls |-> [k \in RequestKeys |-> 0],
   requests |-> [k \in RequestKeys |-> <<>>],
   reqs |-> <<>>, done |-> <<>>, overlap |-> FALSE]

\* ------------------------------------------------------------ mockFetch
FetchUrls == {"https://api/submit", "https://api/ping", "https://api/nope"}
\* init?.method: absent, or a method name in lower case
InitMethods == {<<>>, <<"post">>}

\* String.prototype.toUpperCase, on method names
ToUpperCase(m) == IF m = "post" THEN "POST" ELSE IF m = "get" THEN "GET" ELSE m

\* init?.method?.toUpperCase() ?? "GET"
FetchMethod(init) == IF init = <<>> THEN "GET" ELSE ToUpperCase(init[1])

Raw500 == [kind |-> "object", status |-> <<500>>, body |-> <<>>]

\* The routes every mock is created with: an array under method and URL,
\* an array under a bare URL.
FetchRouteKeys == {<<"POST", "https://api/submit">>, <<"", "https://api/ping">>}
FetchRoutes ==
  [k \in FetchRouteKeys |->
     IF k = <<"POST", "https://api/submit">>
     THEN [array |-> TRUE, rs |-> <<Raw500, Raw200>>]
     ELSE [array |-> TRUE, rs |-> <<RawPlain, Raw204>>]]

\* routes[routeKey] ?? routes[url]; <<>> is undefined
FetchLookup(method, url) ==
  IF <<method, url>> \in FetchRouteKeys THEN <<method, url>>
  ELSE IF <<"", url>> \in FetchRouteKeys THEN <<"", url>>
       ELSE <<>>

\* normalizeResponse of mock-fetch: a Response
NormalizeFetchResponse(raw) ==
  IF raw.kind = "number"
  THEN [NoRes EXCEPT !.status = raw.status[1]]
  ELSE IF raw.kind = "object"
       THEN [NoRes EXCEPT
               !.status = IF raw.status = <<>> THEN 200 ELSE raw.status[1],
               !.body = IF raw.body = <<>> THEN NoBody ELSE Json(raw.body[1])]
       ELSE [NoRes EXCEPT !.status = 200, !.body = Json(raw.body[1])]

\* `mockFetch: no mock for ${routeKey}\nAvailable: ${keys.join(", ")}`
NoMockErr(key) ==
  [status |-> 0, body |-> NoBody, error |-> key, available |-> FetchRouteKeys]

\* Faulty variant: an array route that always gives its first response
FetchPickAlwaysFirst(route, callIndex) == route.rs[1]

\* Array.isArray(route) ? route[Math.min(callIndex, route.length - 1)]
\*                       : route
FetchPick(route, callIndex) ==
  IF route.array THEN route.rs[Min(callIndex, Len(route.rs) - 1) + 1]
  ELSE route.rs[1]

FetchKeys == {<<FetchMethod(i), u>> : i \in InitMethods, u \in FetchUrls}

\* no fetch call made yet
NoFetchCall ==
  [via |-> 0, key |-> <<>>, route |-> <<>>, nth |-> 0, st |-> "none",
   res |-> NoRes]

\* The un-patched fetch is 0, the function installed by the j-th mock
\* is j.  inst[j] is the j-th mock: what it found in globalThis.fetch,
\* its calls, and, as history, how many calls it has received under
\* each key that matched a route and whether restore() has been called
\* on it.  made counts the fetch calls, last is the latest one: who
\* handled it, its key, the how-manieth matched call of that key it was
\* for its mock, and its outcome.
OriginalFetch == 0
NoMf == [fetch |-> OriginalFetch, inst |-> <<>>, made |-> 0,
         last |-> NoFetchCall]

\* --------------------------------------------------- createMockProvider
Max(a, b) == IF a > b THEN a ELSE b

Models == {"gpt-test", "m"}

NoStats ==
  [totalRequests |-> 0, activeRequests |-> 0, maxConcurrent |-> 0,
   requestLog |-> <<>>]

\* A provider created with the default options (failAfter = Infinity is
\* <<>>) on which nothing has been called.  pending holds the models of
\* the calls that wait for their latency timer, results what the
\* finished calls returned (the number in the id) or that they threw.
\* History: started counts the complete() calls, peak is the largest
\* number of calls that were in flight together, sequential says that a
\* call started after another had finished, resets counts reset().
\* since counts the complete() calls since creation or the last reset();
\* each waiting call and each result carries the value it had when the
\* call was made (ord).  last is the latest complete() call: whether it
\* threw, and activeRequests and the length of requestLog before and
\* after it.
DefaultErrorMessage == "Mock provider error"
NoProviderCall ==
  [ord |-> 0, threw |-> FALSE, activeBefore |-> 0, activeAfter |-> 0,
   logBefore |-> 0, logAfter |-> 0]
NoProv ==
  [failAfter |-> <<>>, errorMessage |-> DefaultErrorMessage,
   stats |-> NoStats, pending |-> <<>>,
   results |-> <<>>, started |-> 0, peak |-> 0, sequential |-> FALSE,
   resets |-> 0, since |-> 0, last |-> NoProviderCall]

\* ------------------------------------------------ level scenario runs
\* What a scenario passes to a level runner: given is a [label, fn]
\* pair ("fn"), a bare label ("label") or absent; when and cleanup are
\* there or not; slow silences the slow-test warning.
ScenPhases ==
  [given : {"fn", "label", "absent"}, when : BOOLEAN, cleanup : BOOLEAN,
   slow : BOOLEAN]

\* No error is pending.  A thrown value is an Error or not; the message
\* of an Error is its text, one token per element.
NoScenError == [thrown |-> FALSE, isError |-> FALSE, message |-> <<>>]

\* A scenario that has not been run.  phase is the runner's local of
\* that name, context and result its other two; log is what the runner
\* called and how each call settled, in order.
NoScen ==
  [phases |-> [given |-> "absent", when |-> FALSE, cleanup |-> FALSE,
               slow |-> FALSE],
   pc |-> "idle", phase |-> "given", context |-> "undefined",
   result |-> "undefined", error |-> NoScenError, log |-> <<>>,
   warned |-> FALSE]

\* -------------------------------------------------------- startProcess
\* A startProcess call that has not been made.  promise is the returned
\* promise and err what it rejected with; out is the local stdout, fed
\* by the child's stdout and stderr; timeout says the start timer is
\* armed, listening that onData is attached; kills are the kill() calls
\* made on the ManagedProcess, log every proc.kill made, in order.
NoMp ==
  [promise |-> "none", err |-> "none", proc |-> NoProc, out |-> <<>>,
   timeout |-> FALSE, listening |-> FALSE, kills |-> <<>>, log |-> <<>>]

\* Construction: nothing called, nothing spawned.
ServiceInit ==
  /\ config = [i \in Members |-> NoConfig]
  /\ proc = [i \in Members |-> NoProc]
  /\ stdout = [i \in Members |-> <<>>]
  /\ stderr = [i \in Members |-> <<>>]
  /\ ready = [i \in Members |-> NoReady]
  /\ call = [i \in Members |-> NoCall]
  /\ stops = [i \in Members |-> <<>>]
  /\ log = [i \in Members |-> <<>>]
  /\ activeProcesses = {}
  /\ cluster = NoCluster
  /\ host = [up |-> TRUE, uncaught |-> {}]
  /\ ghost = [i \in Members |-> NoGhost]

Init ==
  /\ ServiceInit
  /\ perf = NoPerf
  /\ srv = NoSrv
  /\ mf = NoMf
  /\ prov = NoProv
  /\ scen = NoScen
  /\ mp = NoMp

\* The test calls startService(config), config.ready of any shape.
CallStartService(i) ==
  /\ Quiescent
  /\ cluster.pc = "idle"
  /\ \E kind \in Kinds : StartService(i, kind)
  /\ UNCHANGED <<mockVars, host, stdout, stderr, stops, log, cluster, ghost>>

\* proc.stdout.on("data", chunk => stdout += chunk.toString())
StdoutData(i, chunk) ==
  /\ Quiescent
  /\ proc[i].status # "none"
  /\ proc[i].cause # SpawnErrno
  /\ Len(stdout[i]) + Len(stderr[i]) + Len(chunk) <= MaxOut
  /\ stdout' = [stdout EXCEPT ![i] = @ \o chunk]
  /\ ghost' = Note(i, Arrived(SawOutput(ghost[i], stdout'[i] \o stderr[i],
                                        proc[i], ready[i]),
                              chunk, proc[i], ready[i]))
  /\ UNCHANGED <<mockVars, host, config, proc, stderr, ready, call, stops,
                 log, activeProcesses, cluster>>

\* proc.stderr.on("data", chunk => stderr += chunk.toString())
StderrData(i, chunk) ==
  /\ Quiescent
  /\ proc[i].status # "none"
  /\ proc[i].cause # SpawnErrno
  /\ Len(stdout[i]) + Len(stderr[i]) + Len(chunk) <= MaxOut
  /\ stderr' = [stderr EXCEPT ![i] = @ \o chunk]
  /\ ghost' = Note(i, Arrived(SawOutput(ghost[i], stdout[i] \o stderr'[i],
                                        proc[i], ready[i]),
                              chunk, proc[i], ready[i]))
  /\ UNCHANGED <<mockVars, host, config, proc, stdout, ready, call, stops,
                 log, activeProcesses, cluster>>

\* The child exits by itself with an exit code.
ChildExits(i, code) ==
  /\ Quiescent
  /\ proc[i].status = "running"
  /\ proc' = [proc EXCEPT ![i].status = "dead", ![i].cause = code]
  /\ ghost' = Note(i, [ghost[i] EXCEPT
                        !.earlyExit = @ \/ (/\ code # "0"
                                            /\ ready[i].promise = "pending"
                                            /\ ~ghost[i].sigEver),
                        !.diedEarly = @ \/ (/\ ready[i].promise = "pending"
                                            /\ ~ghost[i].sigEver)])
  /\ UNCHANGED <<mockVars, host, config, stdout, stderr, ready, call, stops,
                 log, activeProcesses, cluster>>

\* The child is terminated by a signal: a crash, a signal from outside,
\* or a SIGTERM it was sent and did not handle.
ChildSignalled(i) ==
  /\ Quiescent
  /\ proc[i].status = "running"
  /\ proc' = [proc EXCEPT ![i].status = "dead", ![i].cause = "signal"]
  /\ ghost' = Note(i, [ghost[i] EXCEPT
                        !.diedEarly = @ \/ (/\ ready[i].promise = "pending"
                                            /\ ~ghost[i].sigEver)])
  /\ UNCHANGED <<mockVars, host, config, stdout, stderr, ready, call, stops,
                 log, activeProcesses, cluster>>

\* Faulty variant: the 'exit' event without the registry's listener
ExitEventKeepsRegistered(i) ==
  /\ Quiescent
  /\ proc[i].status = "dead"
  /\ proc' = [proc EXCEPT ![i].status = "reaped"]
  /\ stops' = [stops EXCEPT ![i] =
                 [k \in 1..Len(@) |-> StopOnExit(@[k])]]
  /\ UNCHANGED <<mockVars, host, config, stdout, stderr, ready, call, log,
                 cluster, activeProcesses, ghost>>

\* The 'exit' event: exitCode or signalCode is set, the handle closes,
\* and the listeners run in registration order: the registry's delete,
\* then the listener of every stopProcess call made so far.
ExitEvent(i) ==
  /\ Quiescent
  /\ proc[i].status = "dead"
  /\ proc' = [proc EXCEPT ![i].status = "reaped"]
  /\ activeProcesses' = activeProcesses \ {i}
  /\ stops' = [stops EXCEPT ![i] =
                 [k \in 1..Len(@) |-> StopOnExit(@[k])]]
  /\ UNCHANGED <<mockVars, host, config, stdout, stderr, ready, call, log,
                 cluster, ghost>>

\* Faulty variant: the start timer rejects without killing the process
OnStartTimeoutNoKill(i) ==
  /\ Quiescent
  /\ ready[i].timeout
  /\ ready' = [ready EXCEPT ![i] = StartTimeout(i, @)]
  /\ ghost' = Note(i, [ghost[i] EXCEPT !.timerFired = TRUE])
  /\ UNCHANGED <<mockVars, host, config, proc, log, stdout, stderr, call,
                 stops, activeProcesses, cluster>>

\* The start timer fires: proc.kill("SIGKILL"); reject(timeout error).
OnStartTimeout(i) ==
  /\ Quiescent
  /\ ready[i].timeout
  /\ proc' = [proc EXCEPT ![i] = Kill(@, "SIGKILL")]
  /\ log' = [log EXCEPT ![i] =
               Append(@, KillEntry(proc[i], "SIGKILL", "timeout", 0))]
  /\ ready' = [ready EXCEPT ![i] = StartTimeout(i, @)]
  /\ ghost' = Note(i, [ghost[i] EXCEPT !.timerFired = TRUE])
  /\ UNCHANGED <<mockVars, host, config, stdout, stderr, call, stops,
                 activeProcesses, cluster>>

\* The 50 ms interval of the signal strategy fires.
OnSignalInterval(i) ==
  /\ Quiescent
  /\ ready[i].interval
  /\ Strategy(config[i]) = "signal"
  /\ ready' = [ready EXCEPT ![i] =
                 SignalCheck(i, @, proc[i], GetOutput(i))]
  /\ UNCHANGED <<mockVars, host, config, proc, stdout, stderr, call, stops,
                 log, activeProcesses, cluster, ghost>>

\* The poll interval of the url strategy fires: a fetch is issued.
OnPollInterval(i) ==
  /\ Quiescent
  /\ ready[i].interval
  /\ Strategy(config[i]) = "url"
  /\ ready[i].inflight < MaxInflight
  /\ ready' = [ready EXCEPT ![i].inflight = @ + 1]
  /\ UNCHANGED <<mockVars, host, config, proc, stdout, stderr, call, stops,
                 log, activeProcesses, cluster, ghost>>

\* A fetch completes: ok (2xx), or not (another status, an error, the
\* 1 s abort).  The url is answered by whatever listens there.
OnPollResult(i, ok) ==
  /\ Quiescent
  /\ ready[i].inflight > 0
  /\ ready' = [ready EXCEPT ![i] = PollResult(@, ok)]
  /\ ghost' = Note(i, [ghost[i] EXCEPT !.urlOk = @ \/ ok])
  /\ UNCHANGED <<mockVars, host, config, proc, stdout, stderr, call, stops,
                 log, activeProcesses, cluster>>

\* Faulty variant: a handle is built whatever waitForReady answered
ResumeStartServiceAlwaysReturns(i) ==
  /\ SvcResumable(i)
  /\ call' = [call EXCEPT ![i] = [pc |-> "returned", err |-> NoErr]]
  /\ ghost' = Note(i, [ghost[i] EXCEPT !.aliveAtReturn =
                          ready[i].promise = "resolved" /\ IsAlive(proc[i])])
  /\ UNCHANGED <<mockVars, host, config, proc, stdout, stderr, ready, stops,
                 log, activeProcesses, cluster>>

\* startService resumes after `await waitForReady(...)`: it builds and
\* returns the RunningService, or the rejection propagates.
ResumeStartService(i) ==
  /\ SvcResumable(i)
  /\ call' = [call EXCEPT ![i] =
                IF ready[i].promise = "resolved"
                THEN [pc |-> "returned", err |-> NoErr]
                ELSE [pc |-> "threw", err |-> ready[i].err]]
  /\ ghost' = Note(i, [ghost[i] EXCEPT !.aliveAtReturn =
                          ready[i].promise = "resolved" /\ IsAlive(proc[i])])
  /\ UNCHANGED <<mockVars, host, config, proc, stdout, stderr, ready, stops,
                 log, activeProcesses, cluster>>

\* The test calls service.stop() on a handle it was given.
CallStop(i) ==
  /\ Quiescent
  /\ cluster.pc = "idle"
  /\ call[i].pc = "returned"
  /\ Len(stops[i]) < MaxStops
  /\ StopProcess(i)
  /\ UNCHANGED <<mockVars, host, config, stdout, stderr, ready, call,
                 activeProcesses, cluster, ghost>>

\* The forceKill timer of the k-th stop call fires:
\* try { proc.kill("SIGKILL") } catch {}; resolve()
OnForceKill(i, k) ==
  /\ Quiescent
  /\ k \in 1..Len(stops[i])
  /\ stops[i][k].timer
  /\ proc' = [proc EXCEPT ![i] = Kill(@, "SIGKILL")]
  /\ log' = [log EXCEPT ![i] =
               Append(@, KillEntry(proc[i], "SIGKILL", "stop", k))]
  /\ stops' = [stops EXCEPT ![i][k] = StopOnForceKill(@)]
  /\ UNCHANGED <<mockVars, host, config, stdout, stderr, ready, call,
                 activeProcesses, cluster, ghost>>

\* The test calls startService(config) for a command the OS cannot
\* start; spawn reports it through the ChildProcess.
CallStartServiceSpawnFails(i) ==
  /\ Quiescent
  /\ cluster.pc = "idle"
  /\ call[i].pc = "idle"
  /\ \E kind \in Kinds : StartServiceSpawnFails(i, kind)
  /\ UNCHANGED <<mockVars, host, stdout, stderr, stops, log, cluster, ghost>>

\* The test calls startService(config) and spawn throws.
CallStartServiceSpawnThrows(i) ==
  /\ Quiescent
  /\ cluster.pc = "idle"
  /\ call[i].pc = "idle"
  /\ \E kind \in Kinds : StartServiceSpawnThrows(i, kind)
  /\ UNCHANGED <<mockVars, host, stdout, stderr, stops, log, cluster, ghost>>

\* The test calls startService(config) with requires.gpu: checkGpu runs
\* nvidia-smi with execSync (hasGpu is false when it fails or is absent)
\* and the call is suspended at `await checkGpu()`.
CallStartServiceGpu(i, hasGpu) ==
  /\ Quiescent
  /\ cluster.pc = "idle"
  /\ call[i].pc = "idle"
  /\ call' = [call EXCEPT ![i].pc =
                IF hasGpu THEN "gpuFound" ELSE "gpuMissing"]
  /\ UNCHANGED <<mockVars, host, config, proc, stdout, stderr, ready, stops,
                 log, activeProcesses, cluster, ghost>>

\* the descriptor shapes of the call that is resumed: any for a call of
\* the test, those of cluster members for a call of startCluster
CallKinds == IF cluster.pc = "idle" THEN Kinds ELSE ClusterKinds

\* Faulty variant: the requirement is looked at after the spawn
ResumeAfterCheckGpuSpawnsFirst(i) ==
  /\ GpuResumable(i)
  /\ IF call[i].pc = "gpuMissing"
     THEN /\ call' = [call EXCEPT ![i] = [pc |-> "threw", err |-> GpuErr(i)]]
          /\ proc' = [proc EXCEPT ![i] = [NoProc EXCEPT !.status = "running"]]
          /\ activeProcesses' = activeProcesses \cup {i}
          /\ UNCHANGED <<config, ready>>
     ELSE \E kind \in CallKinds :
            \/ StartService(i, kind)
            \/ StartServiceSpawnFails(i, kind)
            \/ StartServiceSpawnThrows(i, kind)
  /\ UNCHANGED <<mockVars, host, stdout, stderr, stops, log, cluster, ghost>>

\* startService resumes after `await checkGpu()`: without a GPU it
\* throws, with one it goes on to spawn.
ResumeAfterCheckGpu(i) ==
  /\ GpuResumable(i)
  /\ IF call[i].pc = "gpuMissing"
     THEN /\ call' = [call EXCEPT ![i] = [pc |-> "threw", err |-> GpuErr(i)]]
          /\ UNCHANGED <<config, proc, activeProcesses, ready>>
     ELSE \E kind \in CallKinds :
            \/ StartService(i, kind)
            \/ StartServiceSpawnFails(i, kind)
            \/ StartServiceSpawnThrows(i, kind)
  /\ UNCHANGED <<mockVars, host, stdout, stderr, stops, log, cluster, ghost>>

\* The queued onexit of a failed spawn runs: exitCode is set, the handle
\* is closed and 'error' is emitted.  startService has put no 'error'
\* listener on the ChildProcess, so emit throws; the exception is
\* uncaught and the 'uncaughtException' listener, killAll, runs.
SpawnErrorEvent(i) ==
  /\ SpawnErrorQueued(i)
  /\ LET closed == [proc EXCEPT ![i].status = "reaped"]
     IN  /\ proc' = KillAll(closed)
         /\ log' = KillAllLog(closed)
  /\ activeProcesses' = {}
  /\ host' = [host EXCEPT !.uncaught = @ \cup {i}]
  /\ UNCHANGED <<mockVars, config, stdout, stderr, ready, call, stops,
                 cluster, ghost>>

\* SIGINT or SIGTERM is delivered to the host, or a callback of the test
\* run throws: the listener killAll runs, and the host goes on.
HostEvent(ev) ==
  /\ Quiescent
  /\ proc' = KillAll(proc)
  /\ log' = KillAllLog(proc)
  /\ activeProcesses' = {}
  /\ UNCHANGED <<mockVars, host, config, stdout, stderr, ready, call, stops,
                 cluster, ghost>>

\* process.exit(), from a callback or a continuation of the test run (the
\* nextTick queue has been drained before either runs): the 'exit'
\* listener killAll runs and the host is gone; nothing that was queued
\* runs.
HostExit ==
  /\ host.up
  /\ \A i \in Members : ~SpawnErrorQueued(i)
  /\ proc' = KillAll(proc)
  /\ log' = KillAllLog(proc)
  /\ activeProcesses' = {}
  /\ host' = [host EXCEPT !.up = FALSE]
  /\ UNCHANGED <<mockVars, config, stdout, stderr, ready, call, stops,
                 cluster, ghost>>

\* What the child of service i, its timers and its continuation do
ServiceStep(i) ==
  \/ \E code \in ExitCodes : ChildExits(i, code)
  \/ ChildSignalled(i)
  \/ ExitEvent(i)
  \/ OnStartTimeout(i)
  \/ OnSignalInterval(i)
  \/ ResumeStartService(i)
  \/ \E k \in 1..MaxStops : OnForceKill(i, k)

\* -------------------------------------------------------- startCluster
\* Faulty variant: startCluster starts its first two members at once
CallStartClusterConcurrent ==
  /\ Quiescent
  /\ cluster.pc = "idle"
  /\ \A i \in Members : call[i].pc = "idle"
  /\ \E kind \in ClusterKinds :
       /\ config' = [config EXCEPT ![1] = kind, ![2] = kind]
       /\ ready' = [ready EXCEPT ![1] = WaitForReady(1, kind),
                                 ![2] = WaitForReady(2, kind)]
  /\ proc' = [proc EXCEPT ![1] = [NoProc EXCEPT !.status = "running"],
                          ![2] = [NoProc EXCEPT !.status = "running"]]
  /\ activeProcesses' = activeProcesses \cup {1, 2}
  /\ call' = [call EXCEPT ![1].pc = "awaiting", ![2].pc = "awaiting"]
  /\ cluster' = [cluster EXCEPT !.pc = "awaitStart"]
  /\ UNCHANGED <<mockVars, host, stdout, stderr, stops, log, ghost>>

\* The test calls startCluster(configs): the first member is started
\* (`await startService(config)`), or an empty list resolves at once.
CallStartCluster ==
  /\ Quiescent
  /\ cluster.pc = "idle"
  /\ \A i \in Members : call[i].pc = "idle"
  /\ \E kind \in ClusterKinds : StartService(1, kind)
  /\ cluster' = [cluster EXCEPT !.pc = "awaitStart"]
  /\ UNCHANGED <<mockVars, host, stdout, stderr, stops, log, ghost>>

\* `await startService(config)` resumes with a service: services.push,
\* then the next member is started, or the cluster is returned.
ClusterMemberStarted ==
  /\ host.up
  /\ cluster.pc = "awaitStart"
  /\ call[Cur].pc = "returned"
  /\ IF Cur = NumServices
     THEN /\ cluster' = [cluster EXCEPT !.pc = "resolved",
                                        !.services = Append(@, Cur)]
          /\ UNCHANGED <<config, proc, ready, call, activeProcesses>>
     ELSE /\ cluster' = [cluster EXCEPT !.services = Append(@, Cur)]
          /\ \E kind \in ClusterKinds : StartService(Cur + 1, kind)
  /\ UNCHANGED <<mockVars, host, stdout, stderr, stops, log, ghost>>

\* startCluster(configs) where the command of the first member is one
\* the OS cannot start.
CallStartClusterSpawnFails ==
  /\ Quiescent
  /\ cluster.pc = "idle"
  /\ \A i \in Members : call[i].pc = "idle"
  /\ \E kind \in ClusterKinds : StartServiceSpawnFails(1, kind)
  /\ cluster' = [cluster EXCEPT !.pc = "awaitStart"]
  /\ UNCHANGED <<mockVars, host, stdout, stderr, stops, log, ghost>>

\* `await startService(config)` resumes with a service, and the command
\* of the next member is one the OS cannot start.
ClusterMemberStartedSpawnFails ==
  /\ host.up
  /\ cluster.pc = "awaitStart"
  /\ call[Cur].pc = "returned"
  /\ Cur < NumServices
  /\ cluster' = [cluster EXCEPT !.services = Append(@, Cur)]
  /\ \E kind \in ClusterKinds : StartServiceSpawnFails(Cur + 1, kind)
  /\ UNCHANGED <<mockVars, host, stdout, stderr, stops, log, ghost>>

\* `await startService(config)` resumes with a service, and the next
\* member has requires.gpu: its start is suspended at `await checkGpu()`.
ClusterMemberStartedGpu(hasGpu) ==
  /\ host.up
  /\ cluster.pc = "awaitStart"
  /\ call[Cur].pc = "returned"
  /\ Cur < NumServices
  /\ cluster' = [cluster EXCEPT !.services = Append(@, Cur)]
  /\ call' = [call EXCEPT ![Cur + 1].pc =
                IF hasGpu THEN "gpuFound" ELSE "gpuMissing"]
  /\ UNCHANGED <<mockVars, host, config, proc, stdout, stderr, ready, stops,
                 log, activeProcesses, ghost>>

\* `await startService(config)` throws: the catch block reverses
\* services in place and stops the first of them (`await s.stop()`), or
\* rethrows at once when there is none.
ClusterMemberFailed ==
  /\ host.up
  /\ cluster.pc = "awaitStart"
  /\ call[Cur].pc = "threw"
  /\ IF cluster.services = <<>>
     THEN /\ cluster' = [cluster EXCEPT !.pc = "rejected",
                                        !.err = call[Cur].err]
          /\ UNCHANGED <<proc, stops, log>>
     ELSE LET rev == Reverse(cluster.services)
          IN  /\ cluster' = [cluster EXCEPT !.pc = "awaitStop",
                                            !.services = rev,
                                            !.at = 1,
                                            !.stopReqs = Append(@, rev[1]),
                                            !.err = call[Cur].err]
              /\ StopProcess(rev[1])
  /\ UNCHANGED <<mockVars, host, config, stdout, stderr, ready, call,
                 activeProcesses, ghost>>

\* `await s.stop().catch(() => {})` resumes: the next member of the
\* reversed list is stopped, or `throw error`.
ClusterRollbackNext ==
  /\ host.up
  /\ cluster.pc = "awaitStop"
  /\ stops[RollbackMember][Len(stops[RollbackMember])].st = "resolved"
  /\ IF cluster.at = Len(cluster.services)
     THEN /\ cluster' = [cluster EXCEPT !.pc = "rejected"]
          /\ UNCHANGED <<proc, stops, log>>
     ELSE LET m == cluster.services[cluster.at + 1]
          IN  /\ cluster' = [cluster EXCEPT !.at = @ + 1,
                                            !.stopReqs = Append(@, m)]
              /\ StopProcess(m)
  /\ UNCHANGED <<mockVars, host, config, stdout, stderr, ready, call,
                 activeProcesses, ghost>>

\* Faulty variant: stopAll reverses the services array itself
CallStopAllReversesInPlace ==
  /\ Quiescent
  /\ cluster.pc = "resolved"
  /\ LET rev == Reverse(cluster.services)
     IN  /\ cluster' = [cluster EXCEPT !.pc = "awaitStopAll",
                                       !.services = rev,
                                       !.at = 1,
                                       !.stopReqs = Append(@, rev[1])]
         /\ StopProcess(rev[1])
  /\ UNCHANGED <<mockVars, host, config, stdout, stderr, ready, call,
                 activeProcesses, ghost>>

\* The test calls cluster.stopAll(): the last member of a reversed copy
\* of services is stopped (`await s.stop().catch(() => {})`).
CallStopAll ==
  /\ Quiescent
  /\ cluster.pc = "resolved"
  /\ LET rev == Reverse(cluster.services)
     IN  /\ cluster' = [cluster EXCEPT !.pc = "awaitStopAll",
                                       !.at = 1,
                                       !.stopReqs = Append(@, rev[1])]
         /\ StopProcess(rev[1])
  /\ UNCHANGED <<mockVars, host, config, stdout, stderr, ready, call,
                 activeProcesses, ghost>>

\* `await s.stop().catch(() => {})` of stopAll resumes: the next member
\* of the reversed copy is stopped, or stopAll returns.
StopAllNext ==
  /\ host.up
  /\ cluster.pc = "awaitStopAll"
  /\ stops[StopAllMember][Len(stops[StopAllMember])].st = "resolved"
  /\ IF cluster.at = Len(cluster.services)
     THEN /\ cluster' = [cluster EXCEPT !.pc = "stoppedAll"]
          /\ UNCHANGED <<proc, stops, log>>
     ELSE LET m == Reverse(cluster.services)[cluster.at + 1]
          IN  /\ cluster' = [cluster EXCEPT !.at = @ + 1,
                                            !.stopReqs = Append(@, m)]
              /\ StopProcess(m)
  /\ UNCHANGED <<mockVars, host, config, stdout, stderr, ready, call,
                 activeProcesses, ghost>>

\* A member prints its ready line, in one chunk on stdout, once.
ClusterMemberPrintsReady(i) ==
  /\ stdout[i] = <<>>
  /\ StdoutData(i, ReadySignal)

\* A cluster of NumServices members, started by the test
ClusterNext ==
  \/ CallStartCluster
  \/ ClusterMemberStarted
  \/ ClusterMemberFailed
  \/ ClusterRollbackNext
  \/ \E i \in Members : ClusterMemberPrintsReady(i)
  \/ \E i \in Members : ServiceStep(i)

SpecCluster == Init /\ [][ClusterNext]_vars

\* A cluster that the test stops with stopAll once it has it
ClusterStopNext ==
  \/ ClusterNext
  \/ CallStopAll
  \/ StopAllNext

\* Timers that are armed fire, 'exit' events are delivered and runnable
\* continuations run.
FairSpecClusterStop ==
  /\ Init /\ [][ClusterStopNext]_vars
  /\ \A i \in Members :
       /\ WF_vars(ExitEvent(i))
       /\ WF_vars(OnForceKill(i, 1))
  /\ WF_vars(StopAllNext)

\* One service, started and stopped by the test; its output arrives
\* character by character on either stream.
Next ==
  \/ CallStartService(1)
  \/ \E c \in Chars : StdoutData(1, <<c>>)
  \/ \E c \in Chars : StderrData(1, <<c>>)
  \/ OnPollInterval(1)
  \/ \E ok \in BOOLEAN : OnPollResult(1, ok)
  \/ ServiceStep(1)
  \/ CallStop(1)

Spec == Init /\ [][Next]_vars

\* Timers that are armed fire, a terminated child's 'exit' event is
\* delivered, and runnable continuations run.
FairSpec ==
  /\ Spec
  /\ \A k \in 1..MaxStops : WF_vars(OnForceKill(1, k))
  /\ WF_vars(ExitEvent(1))
  /\ WF_vars(OnStartTimeout(1))
  /\ WF_vars(ResumeStartService(1))

\* the events killAll listens to, besides 'exit'
HostEvents == {"SIGINT", "SIGTERM", "uncaughtException"}

\* One service started and stopped by the test, with or without a GPU
\* requirement, for a command the OS may be unable to start, printing
\* its ready line in one chunk, in a host that is signalled, throws or
\* exits.
HostNext ==
  \/ CallStartService(1)
  \/ CallStartServiceSpawnFails(1)
  \/ CallStartServiceSpawnThrows(1)
  \/ \E hasGpu \in BOOLEAN : CallStartServiceGpu(1, hasGpu)
  \/ ResumeAfterCheckGpu(1)
  \/ SpawnErrorEvent(1)
  \/ ClusterMemberPrintsReady(1)
  \/ OnPollInterval(1)
  \/ \E ok \in BOOLEAN : OnPollResult(1, ok)
  \/ ServiceStep(1)
  \/ CallStop(1)
  \/ \E ev \in HostEvents : HostEvent(ev)
  \/ HostExit

SpecHost == Init /\ [][HostNext]_vars

\* A cluster of NumServices members in such a host; a member's command
\* may be one the OS cannot start.
ClusterHostNext ==
  \/ ClusterNext
  \/ CallStartClusterSpawnFails
  \/ ClusterMemberStartedSpawnFails
  \/ \E hasGpu \in BOOLEAN : ClusterMemberStartedGpu(hasGpu)
  \/ \E i \in Members : ResumeAfterCheckGpu(i)
  \/ \E i \in Members : SpawnErrorEvent(i)
  \/ \E ev \in HostEvents : HostEvent(ev)
  \/ HostExit

SpecClusterHost == Init /\ [][ClusterHostNext]_vars

\* ---------------------------------------------- assertPerformance runs
\* A test has a service handle (startupMs measured by startService,
\* memoryMb what stats() reads from /proc, or null) and requirements.
InitPerf ==
  /\ ServiceInit
  /\ perf \in [service : [name : ServiceNames, startupMs : 0..MaxMs,
                          memoryMb : Opt(0..MaxMb)],
                requirements : [maxStartupMs : Opt(0..MaxMs),
                                maxMemoryMb : Opt(0..MaxMb)],
                result : {NoPerf.result}]
  /\ srv = NoSrv
  /\ mf = NoMf
  /\ prov = NoProv
  /\ scen = NoScen
  /\ mp = NoMp

\* The test calls assertPerformance(service, requirements).
CallAssertPerformance ==
  /\ perf.result.st = "notCalled"
  /\ perf' = [perf EXCEPT !.result =
                 AssertPerformance(perf.service, perf.requirements)]
  /\ UNCHANGED <<svcVars, srv, mf, prov, scen, mp>>

SpecPerf == InitPerf /\ [][CallAssertPerformance]_vars

\* ------------------------------------------------------ mockServer runs
\* Faulty variant: a handler that counts the request before it looks
\* for the route
ServerRequestCountsFirst(method, pathname, body) ==
  LET key == RouteKey(method, pathname)
      route == Lookup(method, pathname)
      reading == {n \in 1..Len(srv.reqs) : srv.reqs[n].phase = "reading"}
  IN  /\ Len(srv.reqs) < MaxReq
      /\ srv' = [srv EXCEPT
           !.calls[key] = @ + 1,
           !.reqs = Append(@, [key |-> key, body |-> body, route |-> route,
                               phase |-> IF route = <<>> THEN "answered"
                                         ELSE "reading",
                               res |-> IF route = <<>> THEN NotFound(key)
                                       ELSE NoRes]),
           !.done = IF route = <<>> THEN Append(@, Len(srv.reqs) + 1)
                    ELSE @,
           !.overlap = @ \/ (route # <<>> /\ reading # {})]
      /\ UNCHANGED <<svcVars, perf, mf, prov, scen, mp>>

\* A request arrives: the handler runs up to `await readBody(req)`, or
\* answers 404 and returns.
ServerRequest(method, pathname, body) ==
  LET key == RouteKey(method, pathname)
      route == Lookup(method, pathname)
      reading == {n \in 1..Len(srv.reqs) : srv.reqs[n].phase = "reading"}
  IN  /\ Len(srv.reqs) < MaxReq
      /\ srv' = [srv EXCEPT
           !.calls[key] = IF route = <<>> THEN @ ELSE @ + 1,
           !.reqs = Append(@, [key |-> key, body |-> body, route |-> route,
                               phase |-> IF route = <<>> THEN "answered"
                                         ELSE "reading",
                               res |-> IF route = <<>> THEN NotFound(key)
                                       ELSE NoRes]),
           !.done = IF route = <<>> THEN Append(@, Len(srv.reqs) + 1)
                    ELSE @,
           !.overlap = @ \/ (route # <<>> /\ reading # {})]
      /\ UNCHANGED <<svcVars, perf, mf, prov, scen, mp>>

\* The body of request n has been read ('end'): the handler resumes,
\* records the body, picks the response by the route's present call
\* count and answers.
ServerBodyEnd(n) ==
  /\ n \in 1..Len(srv.reqs)
  /\ srv.reqs[n].phase = "reading"
  /\ LET key == srv.reqs[n].key
         callIndex == srv.calls[key] - 1
         raw == PickResponse(Routes[srv.reqs[n].route], callIndex)
     IN  srv' = [srv EXCEPT
           !.requests[key] = Append(@, Recorded(srv.reqs[n].body)),
           !.reqs[n].phase = "answered",
           !.reqs[n].res = NormalizeResponse(raw),
           !.done = Append(@, n)]
  /\ UNCHANGED <<svcVars, perf, mf, prov, scen, mp>>

ServerNext ==
  \/ \E m \in Methods, q \in Paths, b \in Bodies : ServerRequest(m, q, b)
  \/ \E n \in 1..MaxReq : ServerBodyEnd(n)

SpecServer == Init /\ [][ServerNext]_vars

\* ------------------------------------------------------- mockFetch runs
\* mockFetch(routes)(): remember globalThis.fetch, patch it.
InstallMockFetch ==
  /\ Len(mf.inst) < MaxInstalls
  /\ mf' = [mf EXCEPT
       !.inst = Append(@, [original |-> mf.fetch,
                           calls |-> [k \in FetchKeys |-> 0],
                           seen |-> [k \in FetchKeys |-> 0],
                           restored |-> FALSE]),
       !.fetch = Len(mf.inst) + 1]
  /\ UNCHANGED <<svcVars, perf, srv, prov, scen, mp>>

\* mock.restore() of the j-th mock: globalThis.fetch = original
RestoreMockFetch(j) ==
  /\ j \in 1..Len(mf.inst)
  /\ mf' = [mf EXCEPT !.fetch = mf.inst[j].original,
                      !.inst[j].restored = TRUE]
  /\ UNCHANGED <<svcVars, perf, srv, prov, scen, mp>>

\* fetch(url, init) is called: by the un-patched fetch it goes to the
\* network, by a mock's function it is looked up, counted and answered
\* or refused.
CallFetch(url, init) ==
  /\ mf.made < MaxFetches
  /\ LET j == mf.fetch
         key == <<FetchMethod(init), url>>
         route == FetchLookup(FetchMethod(init), url)
         call0 == [NoFetchCall EXCEPT !.via = j, !.key = key,
                                      !.route = route]
     IN  IF j = OriginalFetch
         THEN mf' = [mf EXCEPT
                !.made = @ + 1,
                !.last = [call0 EXCEPT !.route = <<>>, !.st = "network"]]
         ELSE IF route = <<>>
              THEN mf' = [mf EXCEPT
                     !.made = @ + 1,
                     !.last = [call0 EXCEPT !.st = "threw",
                                            !.res = NoMockErr(key)]]
              ELSE LET callIndex == mf.inst[j].calls[key] + 1 - 1
                       raw == FetchPick(FetchRoutes[route], callIndex)
                   IN  mf' = [mf EXCEPT
                         !.inst[j].calls[key] = @ + 1,
                         !.inst[j].seen[key] = @ + 1,
                         !.made = @ + 1,
                         !.last = [call0 EXCEPT
                                     !.nth = mf.inst[j].seen[key] + 1,
                                     !.st = "returned",
                                     !.res = NormalizeFetchResponse(raw)]]
  /\ UNCHANGED <<svcVars, perf, srv, prov, scen, mp>>

FetchNext ==
  \/ InstallMockFetch
  \/ \E j \in 1..MaxInstalls : RestoreMockFetch(j)
  \/ \E u \in FetchUrls, i \in InitMethods : CallFetch(u, i)

SpecFetch == Init /\ [][FetchNext]_vars

\* ---------------------------------------------- createMockProvider runs
\* createMockProvider({failAfter}) with failAfter absent, 1 or 2
InitProvider ==
  /\ ServiceInit
  /\ perf = NoPerf
  /\ srv = NoSrv
  /\ mf = NoMf
  /\ prov \in {[NoProv EXCEPT !.failAfter = f, !.errorMessage = e] :
                 f \in Opt(1..2), e \in {DefaultErrorMessage, "boom"}}
  /\ scen = NoScen
  /\ mp = NoMp

\* Faulty variant: maxConcurrent is taken before the call is counted as
\* active
CallCompleteMaxFirst(model) ==
  /\ prov.started < MaxCalls
  /\ LET total == prov.stats.totalRequests + 1
         active == prov.stats.activeRequests + 1
         most == Max(prov.stats.maxConcurrent, prov.stats.activeRequests)
         hist == [prov EXCEPT
                    !.started = @ + 1,
                    !.peak = Max(@, Len(prov.pending) + 1),
                    !.sequential = @ \/ prov.results # <<>>,
                    !.since = @ + 1]
         ord == prov.since + 1
         logLen == Len(prov.stats.requestLog)
     IN  IF prov.failAfter # <<>> /\ total > prov.failAfter[1]
         THEN prov' = [hist EXCEPT
                !.stats = [@ EXCEPT !.totalRequests = total,
                                    !.maxConcurrent = most],
                !.results = Append(@, [st |-> "threw", id |-> 0,
                                       ord |-> ord,
                                       err |-> prov.errorMessage]),
                !.last = [ord |-> ord, threw |-> TRUE,
                          activeBefore |-> prov.stats.activeRequests,
                          activeAfter |-> active - 1,
                          logBefore |-> logLen, logAfter |-> logLen]]
         ELSE prov' = [hist EXCEPT
                !.stats = [@ EXCEPT !.totalRequests = total,
                                    !.activeRequests = active,
                                    !.maxConcurrent = most],
                !.pending = Append(@, [model |-> model, ord |-> ord]),
                !.last = [ord |-> ord, threw |-> FALSE,
                          activeBefore |-> prov.stats.activeRequests,
                          activeAfter |-> active,
                          logBefore |-> logLen, logAfter |-> logLen]]
  /\ UNCHANGED <<svcVars, perf, srv, mf, scen, mp>>

\* Faulty variant: the failAfter-th call fails already
CallCompleteFailsAtN(model) ==
  /\ prov.started < MaxCalls
  /\ LET total == prov.stats.totalRequests + 1
         active == prov.stats.activeRequests + 1
         most == Max(prov.stats.maxConcurrent, active)
         hist == [prov EXCEPT
                    !.started = @ + 1,
                    !.peak = Max(@, Len(prov.pending) + 1),
                    !.sequential = @ \/ prov.results # <<>>,
                    !.since = @ + 1]
         ord == prov.since + 1
         logLen == Len(prov.stats.requestLog)
     IN  IF prov.failAfter # <<>> /\ total >= prov.failAfter[1]
         THEN prov' = [hist EXCEPT
                !.stats = [@ EXCEPT !.totalRequests = total,
                                    !.maxConcurrent = most],
                !.results = Append(@, [st |-> "threw", id |-> 0,
                                       ord |-> ord,
                                       err |-> prov.errorMessage]),
                !.last = [ord |-> ord, threw |-> TRUE,
                          activeBefore |-> prov.stats.activeRequests,
                          activeAfter |-> active - 1,
                          logBefore |-> logLen, logAfter |-> logLen]]
         ELSE prov' = [hist EXCEPT
                !.stats = [@ EXCEPT !.totalRequests = total,
                                    !.activeRequests = active,
                                    !.maxConcurrent = most],
                !.pending = Append(@, [model |-> model, ord |-> ord]),
                !.last = [ord |-> ord, threw |-> FALSE,
                          activeBefore |-> prov.stats.activeRequests,
                          activeAfter |-> active,
                          logBefore |-> logLen, logAfter |-> logLen]]
  /\ UNCHANGED <<svcVars, perf, srv, mf, scen, mp>>

\* complete(model, messages) is called: it counts itself, then throws
\* (past failAfter) or sets its latency timer and waits.
CallComplete(model) ==
  /\ prov.started < MaxCalls
  /\ LET total == prov.stats.totalRequests + 1
         active == prov.stats.activeRequests + 1
         most == Max(prov.stats.maxConcurrent, active)
         hist == [prov EXCEPT
                    !.started = @ + 1,
                    !.peak = Max(@, Len(prov.pending) + 1),
                    !.sequential = @ \/ prov.results # <<>>,
                    !.since = @ + 1]
         ord == prov.since + 1
         logLen == Len(prov.stats.requestLog)
     IN  IF prov.failAfter # <<>> /\ total > prov.failAfter[1]
         THEN prov' = [hist EXCEPT
                !.stats = [@ EXCEPT !.totalRequests = total,
                                    !.maxConcurrent = most],
                !.results = Append(@, [st |-> "threw", id |-> 0,
                                       ord |-> ord,
                                       err |-> prov.errorMessage]),
                !.last = [ord |-> ord, threw |-> TRUE,
                          activeBefore |-> prov.stats.activeRequests,
                          activeAfter |-> active - 1,
                          logBefore |-> logLen, logAfter |-> logLen]]
         ELSE prov' = [hist EXCEPT
                !.stats = [@ EXCEPT !.totalRequests = total,
                                    !.activeRequests = active,
                                    !.maxConcurrent = most],
                !.pending = Append(@, [model |-> model, ord |-> ord]),
                !.last = [ord |-> ord, threw |-> FALSE,
                          activeBefore |-> prov.stats.activeRequests,
                          activeAfter |-> active,
                          logBefore |-> logLen, logAfter |-> logLen]]
  /\ UNCHANGED <<svcVars, perf, srv, mf, scen, mp>>

\* The latency timer of the oldest waiting call fires (all timers have
\* the same delay): the call leaves the active count, logs itself and
\* returns a completion whose id holds the present totalRequests.
OnLatency ==
  /\ prov.pending # <<>>
  /\ prov' = [prov EXCEPT
       !.stats = [@ EXCEPT !.activeRequests = @ - 1,
                           !.requestLog =
                             Append(@, Head(prov.pending).model)],
       !.pending = Tail(@),
       !.results = Append(@, [st |-> "returned",
                              id |-> prov.stats.totalRequests,
                              ord |-> Head(prov.pending).ord,
                              err |-> ""])]
  /\ UNCHANGED <<svcVars, perf, srv, mf, scen, mp>>

\* reset(): the counters go to zero and the log is emptied, whatever is
\* in flight.
ProviderReset ==
  /\ prov.resets < MaxResets
  /\ prov' = [prov EXCEPT !.stats = NoStats, !.resets = @ + 1,
                          !.since = 0]
  /\ UNCHANGED <<svcVars, perf, srv, mf, scen, mp>>

ProviderNext ==
  \/ \E m \in Models : CallComplete(m)
  \/ OnLatency
  \/ ProviderReset

SpecProvider == InitProvider /\ [][ProviderNext]_vars

\* ============================================================ claims
\* The single-service properties speak of service 1, the one Spec starts.
Settled(i) == call[i].pc \in {"returned", "threw"}

\* the proc.kill calls made by the start timer / by the k-th stop call
TimeoutKills(i) == SelectSeq(log[i], LAMBDA e : e.by = "timeout")
StopKills(i, k) == SelectSeq(log[i], LAMBDA e : e.by = "stop" /\ e.k = k)

\* the k-th stop call on service i has been made and has resolved
StopResolved(i, k) == Len(stops[i]) >= k /\ stops[i][k].st = "resolved"

\* C1: with ready.signal = S, whenever S has been in the combined
\* stdout+stderr text while the process was running and the start timer
\* had not elapsed, the startService promise resolves, and isAlive() is
\* true at the moment it resolves.
C1_ResolvesAliveWhenSignalInTime ==
  (/\ Strategy(config[1]) = "signal"
   /\ ghost[1].sigInTime
   /\ Settled(1))
  => (call[1].pc = "returned" /\ ghost[1].aliveAtReturn)

\* C2 (as stated): under either strategy, if the signal was never in the
\* output and no poll returned success, the promise rejects with the
\* "Not ready within" error, the timeout handler has sent SIGKILL, and
\* the process is not running afterwards.
C2_TimeoutWheneverNeverReady ==
  (/\ Strategy(config[1]) \in {"signal", "url"}
   /\ Settled(1)
   /\ ~ghost[1].sigEver
   /\ ~ghost[1].urlOk)
  => (/\ call[1].pc = "threw"
      /\ call[1].err = TimeoutErr(1)
      /\ Len(TimeoutKills(1)) = 1
      /\ proc[1].status # "running")

\* C2 (amended): under either strategy, when the start timer elapses
\* before readiness or (signal strategy) a process exit has been detected,
\* the promise rejects with the "Not ready within" error, the timeout
\* handler has sent SIGKILL once, and the process is not running at any
\* time after; and a start that never saw the signal nor a successful
\* poll rejects, with that error unless with the premature-exit error.
C2_TimeoutRejectsAndKills ==
  /\ ghost[1].timerFired
     => (/\ ready[1].promise = "rejected"
         /\ ready[1].err = TimeoutErr(1)
         /\ Len(TimeoutKills(1)) = 1
         /\ TimeoutKills(1)[1].sig = "SIGKILL"
         /\ proc[1].status # "running")
  /\ (call[1].pc = "threw" /\ call[1].err.kind = "timeout")
     => ghost[1].timerFired
  /\ (/\ Strategy(config[1]) \in {"signal", "url"}
      /\ Settled(1)
      /\ ~ghost[1].sigEver
      /\ ~ghost[1].urlOk)
     => (/\ call[1].pc = "threw"
         /\ call[1].err.kind \in {"timeout", "exited"}
         /\ call[1].err.kind = "exited" => Strategy(config[1]) = "signal")

\* a url-strategy start that timed out while the child was still running
C2_Witness ==
  /\ Strategy(config[1]) = "url"
  /\ call[1].pc = "threw"
  /\ call[1].err = TimeoutErr(1)
  /\ ~ghost[1].urlOk
  /\ Len(TimeoutKills(1)) = 1
  /\ TimeoutKills(1)[1].ok

\* C3: for every configuration, when the process exits with a non-zero
\* code before the ready signal was emitted, the promise rejects with a
\* message that carries the [name] tag and that exit code.
C3_RejectsWithExitCode ==
  (ghost[1].earlyExit /\ Settled(1))
  => (/\ call[1].pc = "threw"
      /\ call[1].err = ExitedErr(1, proc[1].cause))

\* C4: with a ready descriptor that has neither signal nor url, the
\* promise rejects with the configuration error without waiting for the
\* start timer, and the process spawned for the call is not running when
\* the error is reported.
C4_ConfigErrorLeavesNoProcess ==
  (config[1] = "none" /\ call[1].pc = "threw")
  => (/\ call[1].err = ConfigErr(1)
      /\ ~ghost[1].timerFired
      /\ proc[1].status # "running")

C8_StopAfterExitIsImmediate ==
  \A k \in 1..Len(stops[1]) :
    stops[1][k].pre = "reaped"
    => (stops[1][k].by = "early" /\ StopKills(1, k) = <<>>)

\* C9: each of two stop() calls on the same service, made one after the
\* other or while the first is still waiting, is eventually resolved
\* (stopProcess has no rejecting path: every call is waiting or resolved).
C9_BothStopsComplete ==
  \A k \in 1..2 :
    (Len(stops[1]) >= k) ~> StopResolved(1, k)

\* two stops, both resolved, the second made while the first was still
\* waiting: the exit that resolved the first came after the second call
C9_Witness ==
  /\ Len(stops[1]) = 2
  /\ stops[1][1].st = "resolved" /\ stops[1][1].by # "early"
  /\ stops[1][2].st = "resolved"
  /\ stops[1][2].pre # "reaped"
  /\ stops[1][1].by = "exit"

\* C10: for a service that startService returned and whose process keeps
\* running: isAlive() is true as long as no stop() has been called, the
\* first stop() is eventually resolved, and isAlive() is false in every
\* state in which it has resolved.
C10_AliveUntilStopped ==
  /\ [](/\ (/\ call[1].pc = "returned"
            /\ stops[1] = <<>>
            /\ proc[1].status = "running")
           => IsAlive(proc[1])
        /\ (/\ Len(stops[1]) >= 1
            /\ stops[1][1].pre = "running"
            /\ stops[1][1].st = "resolved")
           => ~IsAlive(proc[1]))
  /\ (Len(stops[1]) >= 1) ~> StopResolved(1, 1)

\* the service was stopped while running and the stop has resolved by
\* the child's exit
C10_Witness ==
  /\ call[1].pc = "returned"
  /\ ghost[1].aliveAtReturn
  /\ Len(stops[1]) >= 1
  /\ stops[1][1].pre = "running"
  /\ stops[1][1].by = "exit"
  /\ ~IsAlive(proc[1])

\* The cluster properties are about SpecCluster.
\* the member whose start failed: the one after those already started
FailedMember == Len(cluster.services) + 1

\* how many stop requests the rollback has sent to member j
RollbackStops(j) ==
  Len(SelectSeq(cluster.stopReqs, LAMBDA m : m = j))

\* C5: when the K-th member of startCluster fails to become ready, the
\* rollback sends one stop request to each of the K-1 members started
\* before it, in the order K-1, K-2, ..., 1, no member after K is ever
\* started, and the rejection of startCluster is the K-th member's own
\* failure, also when a kill made by a rollback stop fails.
C5_RollbackInReverseOrder ==
  /\ cluster.pc \in {"idle", "awaitStart", "resolved"}
     => cluster.stopReqs = <<>>
  /\ cluster.pc \in {"awaitStop", "rejected"}
     => /\ call[FailedMember].pc = "threw"
        /\ cluster.err = call[FailedMember].err
        /\ cluster.err.tag = FailedMember
        /\ \A j \in Members :
             j > FailedMember
             => (call[j].pc = "idle" /\ proc[j].status = "none")
        /\ \A n \in 1..Len(cluster.stopReqs) :
             cluster.stopReqs[n] = FailedMember - n
        /\ \A j \in Members :
             /\ RollbackStops(j) <= 1
             /\ Len(stops[j]) = RollbackStops(j)
  /\ cluster.pc = "awaitStop"
     => Len(cluster.stopReqs) = cluster.at
  /\ cluster.pc = "rejected"
     => Len(cluster.stopReqs) = FailedMember - 1

\* the third member failed, members 2 then 1 were stopped, and a kill
\* made by one of the rollback stops was not delivered
C5_Witness ==
  /\ cluster.pc = "rejected"
  /\ FailedMember = 3
  /\ cluster.stopReqs = <<2, 1>>
  /\ \E j \in {1, 2} : \E n \in 1..Len(log[j]) :
       log[j][n].by = "stop" /\ ~log[j][n].ok

\* C6: whenever startCluster has rejected, every member that had been
\* started successfully reports isAlive() = false, and no ServiceCluster
\* was returned.
C6_RejectedMeansNoneAlive ==
  cluster.pc = "rejected"
  => \A n \in 1..Len(cluster.services) :
       ~IsAlive(proc[cluster.services[n]])

\* The registry properties are about SpecClusterHost.
\* the kills a sweep has made on process i
SweepKills(i) == SelectSeq(log[i], LAMBDA e : e.by = "sweep")

\* a step that takes process i out of the registry / puts it in
Deregisters(i) == i \in activeProcesses /\ i \notin activeProcesses'
Registers(i) == i \notin activeProcesses /\ i \in activeProcesses'

\* a step that delivers the 'exit' event of process i
OwnExitEvent(i) == proc[i].status = "dead" /\ proc'[i].status = "reaped"

\* C11 (as stated): every spawned process that has not terminated is in
\* the registry, and a process leaves the registry once only and only in
\* the step that delivers its own 'exit' event, whatever the interleaving
\* of spawns, exits, stops and sweeps.
C11_RemovedOnlyByOwnExit ==
  /\ [](\A i \in Members : proc[i].status = "running"
                            => i \in activeProcesses)
  /\ [][\A i \in Members :
          /\ Deregisters(i) => OwnExitEvent(i)
          /\ Registers(i) => proc[i].status = "none"]_vars

\* C11 (amended): every spawned process that has not terminated is in
\* the registry; a process is registered by its spawn and never again;
\* it leaves the registry either in the step that delivers its own 'exit'
\* event or in a killAll sweep, which empties the registry; and no
\* process whose 'exit' event was delivered is still registered.
C11_RegisteredUntilExitOrSweep ==
  /\ [](\A i \in Members :
          /\ proc[i].status = "running" => i \in activeProcesses
          /\ proc[i].status = "reaped" => i \notin activeProcesses)
  /\ [][\A i \in Members :
          /\ Deregisters(i) => (OwnExitEvent(i) \/ activeProcesses' = {})
          /\ Registers(i) => proc[i].status = "none"]_vars

\* two members were spawned; the first left the registry by its own
\* exit, the second was swept while it was running
C11_Witness ==
  /\ proc[1].status = "reaped" /\ SweepKills(1) = <<>>
  /\ proc[1].cause \in ExitCodes
  /\ Len(SweepKills(2)) = 1 /\ SweepKills(2)[1].ok
  /\ activeProcesses = {}

\* a step in which killAll runs on a registry that is not empty, or in
\* which the host exits or an 'error' event is uncaught
SweepStep ==
  \/ host'.up # host.up
  \/ host'.uncaught # host.uncaught
  \/ \E i \in Members :
       /\ Len(log'[i]) = Len(log[i]) + 1
       /\ log'[i][Len(log'[i])].by = "sweep"

\* C13 (SpecClusterHost): in every step in which killAll runs, for the
\* host's exit, SIGINT, SIGTERM or an uncaught exception, each process
\* that was in the registry is sent SIGKILL once, whether or not the other
\* kills were delivered, and none of them is running afterwards; no other
\* process is touched; the registry is empty afterwards.
C13_SweepKillsAndClears ==
  [][SweepStep =>
       /\ activeProcesses' = {}
       /\ \A j \in activeProcesses :
            /\ log'[j] = Append(log[j], [sig |-> "SIGKILL", by |-> "sweep",
                                         k |-> 0,
                                         ok |-> proc'[j].status = "dead"])
            /\ proc'[j].status \in {"dead", "reaped"}
            /\ proc'[j].status = "dead" => proc'[j].killed
       /\ \A j \in Members \ activeProcesses :
            log'[j] = log[j] /\ proc'[j] = proc[j]]_vars

\* a sweep has killed a running member and has found the handle of
\* another one closed, and the registry is empty
C13_Witness ==
  /\ activeProcesses = {}
  /\ \E i, j \in Members :
       /\ Len(SweepKills(i)) = 1 /\ SweepKills(i)[1].ok
       /\ Len(SweepKills(j)) = 1 /\ ~SweepKills(j)[1].ok
       /\ proc[i].cause = "signal" /\ proc[i].killed

\* the start of service i has been rejected for the missing GPU
GpuRejected(i) == call[i].pc = "threw" /\ call[i].err.kind = "gpu"

\* C20 (SpecClusterHost): a start with requires.gpu for which checkGpu
\* found no GPU rejects with the [name]-tagged requirement error in its
\* next step; neither the check nor the rejection spawns anything or
\* changes the registry, and the service has no process, no registry
\* entry and no readiness wait.
C20_NoGpuNoSpawn ==
  /\ [](\A i \in Members :
          (call[i].pc = "gpuMissing" \/ GpuRejected(i))
          => /\ proc[i].status = "none"
             /\ i \notin activeProcesses
             /\ ready[i] = NoReady
             /\ log[i] = <<>>
             /\ GpuRejected(i) => call[i].err = GpuErr(i))
  /\ [][\A i \in Members :
          /\ (call[i].pc = "gpuMissing" /\ call'[i] # call[i])
             => /\ call'[i] = [pc |-> "threw", err |-> GpuErr(i)]
                /\ activeProcesses' = activeProcesses
                /\ proc' = proc
          /\ (call[i].pc = "idle" /\ call'[i].pc = "gpuMissing")
             => /\ activeProcesses' = activeProcesses
                /\ proc' = proc]_vars

\* the second member was rejected for the missing GPU while the first
\* was running and registered
C20_Witness ==
  /\ GpuRejected(2)
  /\ cluster.pc = "awaitStart"
  /\ proc[1].status = "running"
  /\ activeProcesses = {1}

\* The next properties are about SpecHost.
\* a step in which spawn returns the ChildProcess of service i
Spawns(i) == proc[i].status = "none" /\ proc'[i].status # "none"

\* C12: the step that spawns a process also registers it, so that a
\* process whose handle is open is in the registry in every state until a
\* sweep clears the registry, and every 'exit' event is that of a process
\* that is registered or was swept: no callback runs between spawn and
\* registerProcess.
C12_SpawnRegistersAtOnce ==
  /\ [][\A i \in Members :
          /\ Spawns(i) => i \in activeProcesses'
          /\ OwnExitEvent(i)
             => (i \in activeProcesses \/ SweepKills(i) # <<>>)]_vars
  /\ [](\A i \in Members :
          (proc[i].status \in {"running", "dead", "failed"}
           /\ SweepKills(i) = <<>>)
          => i \in activeProcesses)

\* the service was spawned, has printed its ready line, was returned to
\* the test and is registered and running
C12_Witness ==
  /\ call[1].pc = "returned"
  /\ stdout[1] = ReadySignal
  /\ proc[1].status = "running"
  /\ 1 \in activeProcesses

\* the ways a start fails
FailureKinds == {"config", "gpu", "spawn", "exited", "timeout"}

\* C14: startService returns a handle only in the step that resumes it
\* from a resolved readiness wait, whose signal was in the output or whose
\* poll returned success; a start that fails (configuration error, no
\* GPU, spawn error, premature exit, timeout) rejects with that failure,
\* and a call that has rejected never produces a handle.
C14_HandleOnlyAfterReady ==
  /\ [](call[1].pc = "returned"
        => /\ ready[1].promise = "resolved"
           /\ ghost[1].sigEver \/ ghost[1].urlOk)
  /\ [](call[1].pc = "threw"
        => /\ call[1].err.kind \in FailureKinds
           /\ ready[1].promise \in {"none", "rejected"}
           /\ ready[1].promise = "rejected" => call[1].err = ready[1].err)
  /\ []((ready[1].promise = "rejected" /\ call[1].pc # "awaiting")
        => call[1].pc = "threw")
  /\ [][/\ call[1].pc = "threw" => call'[1].pc = "threw"
        /\ (call'[1].pc = "returned" /\ call[1].pc # "returned")
           => (call[1].pc = "awaiting" /\ ready[1].promise = "resolved")]_vars

\* a start whose process exited before it was ready has rejected with
\* the premature-exit error
C14_Witness ==
  /\ call[1].pc = "threw"
  /\ call[1].err.kind = "exited"
  /\ proc[1].cause \in ExitCodes
  /\ ~ghost[1].sigEver

\* C19: when the OS cannot start the command, startService rejects with
\* the spawn error (the OS message), not with the timeout or the
\* premature-exit error, and no 'error' event of a ChildProcess is ever
\* an uncaught exception of the host.
C19_SpawnErrorIsRejection ==
  /\ host.uncaught = {}
  /\ (Settled(1) /\ proc[1].cause = SpawnErrno)
     => (call[1].pc = "threw" /\ call[1].err.kind = "spawn")

\* The next properties are about Spec.
\* C15: the readiness wait settles once: from the step in which it has
\* resolved or rejected on, its outcome and its error stay what they are,
\* whichever trigger comes later (a match, a successful poll, a detected
\* exit, the start timer), and startService ends with that one outcome.
C15_SettlesOnce ==
  /\ [][/\ ready[1].promise \in {"resolved", "rejected"}
           => /\ ready'[1].promise = ready[1].promise
              /\ ready'[1].err = ready[1].err
        /\ Settled(1) => call'[1] = call[1]]_vars
  /\ [](/\ call[1].pc = "returned" => ready[1].promise = "resolved"
        /\ call[1].pc = "threw"
           => (ready[1].promise = "rejected" /\ call[1].err = ready[1].err))

\* the start timed out while a poll was in flight, the poll then
\* returned success, and the start has stayed rejected
C15_Witness ==
  /\ Strategy(config[1]) = "url"
  /\ call[1].pc = "threw"
  /\ call[1].err = TimeoutErr(1)
  /\ ghost[1].urlOk
  /\ ready[1].promise = "rejected"

\* C16: once the readiness wait has settled, by success, by a detected
\* exit or by the start timer, neither the start timer nor the periodic
\* check or poll of either strategy is armed any more.
C16_NothingArmedAfterSettle ==
  (Strategy(config[1]) \in {"signal", "url"} /\ ready[1].promise # "pending")
  => (~ready[1].timeout /\ ~ready[1].interval)

\* C17: under the url strategy, when the process exits before any poll
\* has returned success, startService rejects with the premature-exit
\* error, which carries [name] and the exit code, and the start timer
\* does not get to fire.
C17_UrlReportsPrematureExit ==
  (/\ Strategy(config[1]) = "url"
   /\ ghost[1].diedEarly
   /\ proc[1].cause \in ExitCodes
   /\ Settled(1))
  => (/\ call[1].pc = "threw"
      /\ call[1].err = ExitedErr(1, proc[1].cause)
      /\ ~ghost[1].timerFired)

\* C18: under the signal strategy, when the process terminates while
\* readiness is awaited, with a non-zero code, with code 0 or by a
\* signal, startService rejects with the premature-exit error and the
\* start timer does not get to fire.
C18_SignalReportsAnyExit ==
  (/\ Strategy(config[1]) = "signal"
   /\ ghost[1].diedEarly
   /\ Settled(1))
  => (/\ call[1].pc = "threw"
      /\ call[1].err.kind = "exited"
      /\ call[1].err.tag = 1
      /\ ~ghost[1].timerFired)

\* The next properties are about SpecCluster.
\* the members whose startService call is waiting for readiness
Awaiting == {i \in Members : call[i].pc = "awaiting"}

\* C21: startCluster starts its members one after another in list
\* order: a member is spawned only in a step taken when the member before
\* it has been returned by startService, whose readiness wait resolved,
\* so at most one member is waiting for readiness in any state.
C21_MembersStartInSequence ==
  /\ [](/\ Cardinality(Awaiting) <= 1
        /\ \A i \in Members :
             (i > 1 /\ call[i].pc # "idle")
             => (/\ call[i - 1].pc = "returned"
                 /\ ready[i - 1].promise = "resolved"
                 /\ Len(cluster.services) >= i - 1))
  /\ [][\A i \in Members :
          (Spawns(i) /\ i > 1) => call[i - 1].pc = "returned"]_vars

\* the second member is waiting for readiness after the first one was
\* detected ready
C21_Witness ==
  /\ call[1].pc = "returned"
  /\ cluster.services = <<1>>
  /\ call[2].pc = "awaiting"
  /\ proc[2].status = "running"
  /\ call[3].pc = "idle"

\* The next properties are about FairSpecClusterStop.
\* C22: stopAll stops the members one at a time in reverse start order:
\* the n-th stop request goes to member NumServices + 1 - n and is made
\* when the requests before it have resolved; each member gets one
\* stop() call, which sends SIGTERM unless the process was already
\* signalled or has an exit code; the services list keeps its start
\* order; and a stopAll that was called eventually returns.
C22_StopAllInReverseOrder ==
  /\ [](cluster.pc \in {"awaitStopAll", "stoppedAll"}
        => /\ \A n \in 1..Len(cluster.services) : cluster.services[n] = n
           /\ Len(cluster.services) = NumServices
           /\ \A n \in 1..Len(cluster.stopReqs) :
                /\ cluster.stopReqs[n] = NumServices + 1 - n
                /\ Len(stops[cluster.stopReqs[n]]) = 1
                /\ n < Len(cluster.stopReqs)
                   => stops[cluster.stopReqs[n]][1].st = "resolved"
           /\ \A j \in Members :
                j < NumServices + 1 - Len(cluster.stopReqs)
                => stops[j] = <<>>
           /\ \A j \in Members :
                (stops[j] # <<>> /\ stops[j][1].by # "early")
                => (/\ Len(StopKills(j, 1)) >= 1
                    /\ StopKills(j, 1)[1].sig = "SIGTERM"))
  /\ [](cluster.pc = "awaitStopAll"
        => Len(cluster.stopReqs) = cluster.at)
  /\ [](cluster.pc = "stoppedAll"
        => /\ Len(cluster.stopReqs) = NumServices
           /\ \A j \in Members : StopResolved(j, 1))
  /\ (cluster.pc = "awaitStopAll") ~> (cluster.pc = "stoppedAll")

\* stopAll has returned after a stop whose SIGTERM was not delivered
\* (the member had been terminated by a signal) and one that ended by
\* its forceKill timer
C22_Witness ==
  /\ cluster.pc = "stoppedAll"
  /\ cluster.stopReqs = <<3, 2, 1>>
  /\ \E j \in Members :
       /\ StopKills(j, 1) # <<>>
       /\ ~StopKills(j, 1)[1].ok
  /\ \E j \in Members : stops[j][1].by = "timer"

\* The next properties are about FairSpec.
\* C23: every startService call that reached waitForReady settles:
\* while the readiness promise is pending the start timer is armed, once
\* the timer has fired the promise is rejected, the handler has sent
\* SIGKILL and the process is not running, and a waiting call eventually
\* returns or throws, whatever the process prints, answers or does.
C23_EveryStartSettles ==
  /\ []((call[1].pc = "awaiting" /\ ready[1].promise = "pending")
        => ready[1].timeout)
  /\ [](ghost[1].timerFired
        => /\ ready[1].promise = "rejected"
           /\ TimeoutKills(1) # <<>>
           /\ TimeoutKills(1)[1].sig = "SIGKILL"
           /\ proc[1].status # "running")
  /\ (call[1].pc = "awaiting") ~> (call[1].pc \in {"returned", "threw"})

\* a start under the url strategy, whose process stayed up and never
\* answered, has thrown after the timer killed the running process
C23_Witness ==
  /\ Strategy(config[1]) = "url"
  /\ ghost[1].timerFired
  /\ ~ghost[1].diedEarly
  /\ ~ghost[1].urlOk
  /\ call[1].pc = "threw"
  /\ TimeoutKills(1)[1].ok
  /\ proc[1].status # "running"

\* The next properties are about Spec.
\* C24: under the signal strategy the text that readiness is checked
\* against is the output in the order it arrived; readiness is detected
\* only if the signal has occurred in that history; and a start whose
\* history contained the signal while the process was running and the
\* start timer had not elapsed ends with readiness detected.
C24_DetectsSignalInArrivalOrder ==
  Strategy(config[1]) = "signal"
  => /\ GetOutput(1) = ghost[1].hist
     /\ ready[1].promise = "resolved"
        => Includes(ghost[1].hist, ReadySignal)
     /\ (Settled(1) /\ ghost[1].histInTime)
        => ready[1].promise = "resolved"

\* The next properties are about SpecPerf.
\* C25: with maxStartupMs = M and no memory limit, assertPerformance
\* throws exactly when service.startupMs > M, and what it throws says
\* "Startup too slow" and carries the service's name.
C25_ThrowsExactlyWhenTooSlow ==
  (/\ perf.result.st # "notCalled"
   /\ perf.requirements.maxStartupMs # <<>>
   /\ perf.requirements.maxMemoryMb = <<>>)
  => /\ perf.result.st = "threw"
        <=> perf.service.startupMs > perf.requirements.maxStartupMs[1]
     /\ perf.result.st = "threw"
        => /\ perf.result.err.text = "Startup too slow"
           /\ perf.result.err.tag = perf.service.name
     /\ perf.result.st \in {"threw", "returned"}

\* a startup one millisecond over the limit has thrown, for a service
\* whose memory figure is known
C25_Witness ==
  /\ perf.result.st = "threw"
  /\ perf.requirements.maxMemoryMb = <<>>
  /\ perf.requirements.maxStartupMs # <<>>
  /\ perf.service.startupMs = perf.requirements.maxStartupMs[1] + 1
  /\ perf.service.memoryMb # <<>>

\* The next properties are about SpecServer.
\* the requests, by arrival, that were matched to table entry r
ArrivalsAt(r) == {n \in 1..Len(srv.reqs) : srv.reqs[n].route = r}
\* request n is the Nth(n)-th request received for its route
Nth(n) == Cardinality({m \in ArrivalsAt(srv.reqs[n].route) : m <= n})

\* C26: for a route configured with an array of k responses, the n-th
\* request received for that route is answered with the n-th response
\* when n <= k and with the last one when n > k, however the handling of
\* the requests interleaves.
C26_NthRequestGetsNthResponse ==
  \A n \in 1..Len(srv.reqs) :
    (/\ srv.reqs[n].phase = "answered"
     /\ srv.reqs[n].route # <<>>
     /\ Routes[srv.reqs[n].route].array)
    => LET rs == Routes[srv.reqs[n].route].rs
       IN  srv.reqs[n].res = NormalizeResponse(rs[Min(Nth(n), Len(rs))])

\* the recorded bodies of the requests at the positions in seq that
\* carry key k
BodiesOf(seq, k) ==
  LET hits == SelectSeq(seq, LAMBDA n : srv.reqs[n].key = k
                                       /\ srv.reqs[n].route # <<>>)
  IN  [j \in 1..Len(hits) |-> Recorded(srv.reqs[hits[j]].body)]

AllAnswered == \A n \in 1..Len(srv.reqs) : srv.reqs[n].phase = "answered"
ArrivalOrder == [n \in 1..Len(srv.reqs) |-> n]

\* C27 (as stated): once every request has been answered, calls[routeKey]
\* is the number of requests received under that key that matched a
\* route, requests[routeKey] holds their bodies in the order the requests
\* were made, and a request that matched no route was answered 404 with
\* the available routes and left calls and requests as they were.
C27_BodiesInRequestOrder ==
  AllAnswered
  => \A k \in RequestKeys :
       /\ srv.calls[k] = Len(BodiesOf(ArrivalOrder, k))
       /\ srv.requests[k] = BodiesOf(ArrivalOrder, k)
       /\ \A n \in 1..Len(srv.reqs) :
            (srv.reqs[n].key = k /\ srv.reqs[n].route = <<>>)
            => /\ srv.reqs[n].res = NotFound(k)
               /\ srv.calls[k] = 0
               /\ srv.requests[k] = <<>>

\* C27 (amended): once every request has been answered, calls[routeKey]
\* is the number of requests received under that key that matched a
\* route and requests[routeKey] holds one body for each of them, in the
\* order in which the bodies were completely read, which is the order of
\* the requests when no request arrived while another was being read; a
\* request that matched no route was answered 404 with the available
\* routes and left calls and requests as they were.
C27_BodiesInCompletionOrder ==
  AllAnswered
  => \A k \in RequestKeys :
       /\ srv.calls[k] = Len(BodiesOf(ArrivalOrder, k))
       /\ Len(srv.requests[k]) = srv.calls[k]
       /\ srv.requests[k] = BodiesOf(srv.done, k)
       /\ ~srv.overlap => srv.requests[k] = BodiesOf(ArrivalOrder, k)
       /\ \A n \in 1..Len(srv.reqs) :
            (srv.reqs[n].key = k /\ srv.reqs[n].route = <<>>)
            => /\ srv.reqs[n].res = NotFound(k)
               /\ srv.calls[k] = 0
               /\ srv.requests[k] = <<>>

\* two overlapping posts were recorded in the order their bodies ended,
\* the second one first, and a request for an unknown path was refused
C27_Witness ==
  /\ AllAnswered
  /\ Len(srv.reqs) = 3
  /\ srv.calls[<<"POST", "/submit">>] = 2
  /\ srv.requests[<<"POST", "/submit">>]
       # BodiesOf(ArrivalOrder, <<"POST", "/submit">>)
  /\ \E n \in 1..3 : srv.reqs[n].res.status = 404

\* The next properties are about SpecFetch.
\* C28: under a route that is an array of k responses, the n-th fetch
\* call a mock receives for a method and URL returns response min(n, k);
\* calls[routeKey] is the number of calls of that key that matched a
\* route; a call that matches no route throws an error that names the
\* key and the available routes, and is not counted.
C28_NthFetchGetsMinNK ==
  /\ LET e == mf.last
     IN  (e.st # "none" /\ e.via # OriginalFetch)
         => IF FetchLookup(e.key[1], e.key[2]) = <<>>
            THEN e.st = "threw" /\ e.res = NoMockErr(e.key)
            ELSE /\ e.st = "returned"
                 /\ e.nth >= 1
                 /\ LET rs == FetchRoutes[e.route].rs
                    IN  e.res = NormalizeFetchResponse(rs[Min(e.nth, Len(rs))])
  /\ \A j \in 1..Len(mf.inst) : \A k \in FetchKeys :
       mf.inst[j].calls[k] = mf.inst[j].seen[k]

\* a mock has answered its third post to the two-response route, with
\* the last response; other fetch calls were made before it
C28_Witness ==
  /\ mf.made = MaxFetches
  /\ mf.last.via = 1
  /\ mf.last.key = <<"POST", "https://api/submit">>
  /\ mf.last.nth = 3
  /\ mf.last.res = NormalizeFetchResponse(Raw200)
  /\ mf.inst[1].calls[<<"POST", "https://api/submit">>] = 3

\* C29: once every installed mock has been restored, globalThis.fetch is
\* the original fetch again, for any sequence of installs and restores.
C29_AllRestoredMeansOriginal ==
  (/\ mf.inst # <<>>
   /\ \A j \in 1..Len(mf.inst) : mf.inst[j].restored)
  => mf.fetch = OriginalFetch

\* The next properties are about SpecProvider.
\* C30: when n complete() calls have been started on a provider (and no
\* reset()) and all of them have finished, totalRequests = n,
\* maxConcurrent is the largest number of calls that were in flight
\* together, which is n when no call started after another had finished,
\* and activeRequests = 0.
C30_StatsAfterAllFinished ==
  (/\ prov.resets = 0
   /\ prov.started > 0
   /\ prov.pending = <<>>)
  => /\ prov.stats.totalRequests = prov.started
     /\ prov.stats.maxConcurrent = prov.peak
     /\ ~prov.sequential => prov.stats.maxConcurrent = prov.started
     /\ prov.stats.activeRequests = 0
     /\ Len(prov.results) = prov.started

\* MaxCalls calls that were all in flight together have all finished
C30_Witness ==
  /\ prov.resets = 0
  /\ prov.pending = <<>>
  /\ prov.failAfter = <<>>
  /\ prov.started = MaxCalls
  /\ ~prov.sequential
  /\ prov.peak = MaxCalls
  /\ Len(prov.stats.requestLog) = MaxCalls

\* the finished calls, by position in results, that threw
Threw == {n \in 1..Len(prov.results) : prov.results[n].st = "threw"}

\* C31: with failAfter = N, a complete() call succeeds when it is among
\* the first N calls made since creation or the last reset() and
\* rejects with the configured errorMessage otherwise, whether or not
\* calls overlap; the calls that wait for their latency are among the
\* first N; a call that fails leaves activeRequests as it found it and
\* adds nothing to requestLog.  Without failAfter no call fails.
C31_FirstNSucceedLaterFail ==
  /\ \A n \in 1..Len(prov.results) :
       /\ prov.results[n].st = "threw"
          <=> (prov.failAfter # <<>>
               /\ prov.results[n].ord > prov.failAfter[1])
       /\ prov.results[n].st = "threw"
          => prov.results[n].err = prov.errorMessage
  /\ \A n \in 1..Len(prov.pending) :
       prov.failAfter # <<>> => prov.pending[n].ord <= prov.failAfter[1]
  /\ prov.last.threw
     => /\ prov.last.activeAfter = prov.last.activeBefore
        /\ prov.last.logAfter = prov.last.logBefore

\* with failAfter = 2 and a custom message, two overlapping calls were
\* started, a third one failed while they were in flight, and after a
\* reset() a fourth call was accepted
C31_Witness ==
  /\ prov.failAfter = <<2>>
  /\ prov.errorMessage = "boom"
  /\ prov.resets = 1
  /\ Threw # {}
  /\ \A n \in Threw : prov.results[n].ord = 3
  /\ prov.last.ord = 1
  /\ ~prov.last.threw
  /\ prov.sequential
  /\ prov.peak >= 3

\* C40: in every state of a mock provider, reset() while calls are in
\* flight included, activeRequests is not negative, and it is 0 when no
\* complete() call is in flight.
C40_ActiveNeverNegative ==
  /\ prov.stats.activeRequests >= 0
  /\ prov.pending = <<>> => prov.stats.activeRequests = 0

\* ------------------------------------------------ level scenario runs
\* what the phase functions of a scenario return, and what they throw:
\* an Error, an Error whose message already starts with "[", a value
\* that is not an Error
GivenValues == {"ctxA", "ctxB"}
WhenValues == {"resA", "resB"}
Thrown ==
  {[thrown |-> TRUE, isError |-> TRUE, message |-> <<"boom">>],
   [thrown |-> TRUE, isError |-> TRUE,
    message |-> <<"[", "custom", "]", "boom">>],
   [thrown |-> TRUE, isError |-> FALSE, message |-> <<>>]}

\* it(name, {timeout}, fn) with a scenario of any shape
InitRunner ==
  /\ ServiceInit
  /\ perf = NoPerf
  /\ srv = NoSrv
  /\ mf = NoMf
  /\ prov = NoProv
  /\ scen \in {[NoScen EXCEPT !.phases = ph] : ph \in ScenPhases}
  /\ mp = NoMp

\* one entry of the log
ScenEvent(ev, fn, args) == [ev |-> ev, fn |-> fn, args |-> args]

\* error.message.startsWith("[")
StartsWithBracket(message) == message # <<>> /\ message[1] = "["

\* catch (error): an Error whose message does not start with "[" gets
\* the phase in front of its message; the error is thrown on
Prefixed(phase, e) ==
  IF e.isError /\ ~StartsWithBracket(e.message)
  THEN [e EXCEPT !.message = <<"[", phase, "]">> \o @]
  ELSE e

\* the end of the test function: it rethrows what is pending, and when
\* nothing is, it warns if the run was slow and the scenario not marked
Finish(r, slowRun) ==
  IF r.error.thrown
  THEN [r EXCEPT !.pc = "failed"]
  ELSE [r EXCEPT !.pc = "passed", !.warned = ~r.phases.slow /\ slowRun]

\* Faulty variant: cleanup is called after the then phase only, not in
\* a finally block
EnterFinallyOnSuccessOnly(r, slowRun) ==
  IF r.phases.cleanup /\ ~r.error.thrown
  THEN [r EXCEPT !.pc = "cleanup",
                 !.log = Append(@, ScenEvent("call", "cleanup",
                                             <<r.context>>))]
  ELSE Finish(r, slowRun)

\* finally { if (phases.cleanup) await phases.cleanup(context) }
EnterFinally(r, slowRun) ==
  IF r.phases.cleanup
  THEN [r EXCEPT !.pc = "cleanup",
                 !.log = Append(@, ScenEvent("call", "cleanup",
                                             <<r.context>>))]
  ELSE Finish(r, slowRun)

\* Faulty variant: then is called with (context, result)
EnterThenSwapped(r) ==
  [r EXCEPT !.pc = "then", !.phase = "then",
            !.log = Append(@, ScenEvent("call", "then",
                                        <<r.context, r.result>>))]

\* phase = "then"; await phases.then[1](result, context)
EnterThen(r) ==
  [r EXCEPT !.pc = "then", !.phase = "then",
            !.log = Append(@, ScenEvent("call", "then",
                                        <<r.result, r.context>>))]

\* phase = "when"; result = phases.when ? await phases.when[1](context)
\*                                      : context
EnterWhen(r) ==
  IF r.phases.when
  THEN [r EXCEPT !.pc = "when", !.phase = "when",
                 !.log = Append(@, ScenEvent("call", "when",
                                             <<r.context>>))]
  ELSE EnterThen([r EXCEPT !.phase = "when", !.result = r.context])

\* vitest runs the test function: phase = "given", context = undefined,
\* and given is called when it is a [label, fn] pair
RunScenario ==
  /\ scen.pc = "idle"
  /\ scen' = IF scen.phases.given = "fn"
             THEN [scen EXCEPT !.pc = "given",
                               !.log = Append(@, ScenEvent("call", "given",
                                                           <<>>))]
             ELSE EnterWhen(scen)
  /\ UNCHANGED <<svcVars, perf, srv, mf, prov, mp>>

\* the values the function the runner awaits may resolve with
Returns(pc) ==
  CASE pc = "given" -> GivenValues \cup {"undefined"}
    [] pc = "when" -> WhenValues \cup {"undefined"}
    [] OTHER -> {"undefined"}

\* The promise the runner awaits resolves with v: the continuation
\* stores it and goes on to the next phase, to cleanup, or to the end.
PhaseReturns(v) ==
  /\ scen.pc \in {"given", "when", "then", "cleanup"}
  /\ v \in Returns(scen.pc)
  /\ \E slowRun \in BOOLEAN :
       LET r == [scen EXCEPT !.log = Append(@, ScenEvent("return", scen.pc,
                                                         <<v>>))]
       IN  scen' = CASE scen.pc = "given" ->
                          EnterWhen([r EXCEPT !.context = v])
                     [] scen.pc = "when" ->
                          EnterThen([r EXCEPT !.result = v])
                     [] scen.pc = "then" -> EnterFinally(r, slowRun)
                     [] OTHER -> Finish(r, slowRun)
  /\ UNCHANGED <<svcVars, perf, srv, mf, prov, mp>>

\* The promise the runner awaits rejects with e (or the function throws
\* it): a phase's error goes through catch and then finally; what
\* cleanup throws leaves the finally block as it is and replaces an
\* error that was pending.
PhaseThrows(e) ==
  /\ scen.pc \in {"given", "when", "then", "cleanup"}
  /\ LET r == [scen EXCEPT !.log = Append(@, ScenEvent("throw", scen.pc,
                                                       <<>>))]
     IN  scen' = IF scen.pc = "cleanup"
                 THEN Finish([r EXCEPT !.error = e], FALSE)
                 ELSE EnterFinally([r EXCEPT !.error =
                                       Prefixed(scen.phase, e)], FALSE)
  /\ UNCHANGED <<svcVars, perf, srv, mf, prov, mp>>

RunnerNext ==
  \/ RunScenario
  \/ \E v \in GivenValues \cup WhenValues \cup {"undefined"} :
       PhaseReturns(v)
  \/ \E e \in Thrown : PhaseThrows(e)

SpecRunner == InitRunner /\ [][RunnerNext]_vars

\* the three phases of a scenario, and their place in the order
PhaseFns == {"given", "when", "then"}
ScenRank(fn) ==
  CASE fn = "given" -> 1 [] fn = "when" -> 2 [] fn = "then" -> 3
    [] OTHER -> 4

\* the positions in the log at which the runner called fn, at which fn
\* returned, at which a phase threw
ScenCalls(fn) ==
  {k \in 1..Len(scen.log) : scen.log[k].ev = "call" /\ scen.log[k].fn = fn}
ScenReturns(fn) ==
  {k \in 1..Len(scen.log) :
     scen.log[k].ev = "return" /\ scen.log[k].fn = fn}
PhaseThrew ==
  {k \in 1..Len(scen.log) :
     scen.log[k].ev = "throw" /\ scen.log[k].fn \in PhaseFns}

\* what given produced and what when produced, as the log has them
\* (undefined without a given function, the context without a when)
GivenProduced ==
  IF ScenReturns("given") = {} THEN "undefined"
  ELSE scen.log[CHOOSE k \in ScenReturns("given") : TRUE].args[1]
WhenProduced ==
  IF ScenReturns("when") = {} THEN GivenProduced
  ELSE scen.log[CHOOSE k \in ScenReturns("when") : TRUE].args[1]

\* C32: in a level scenario run the phases are called in the order
\* given, when, then, each at most once and none skipped; when a phase
\* is called every phase called before it has returned (so none is
\* called after a throw); when is called with the context given
\* produced, then with (result, context), the result being the context
\* when there is no when phase.
C32_PhasesInOrder ==
  /\ \A fn \in PhaseFns : Cardinality(ScenCalls(fn)) <= 1
  /\ \A fn \in PhaseFns : \A k \in ScenCalls(fn) :
       /\ \A j \in 1..(k - 1) :
            /\ scen.log[j].ev # "throw"
            /\ scen.log[j].fn \in PhaseFns
            /\ ScenRank(scen.log[j].fn) < ScenRank(fn)
            /\ scen.log[j].ev = "call"
               => /\ j + 1 < k
                  /\ scen.log[j + 1].ev = "return"
                  /\ scen.log[j + 1].fn = scen.log[j].fn
       /\ fn # "given" /\ scen.phases.given = "fn"
          => ScenReturns("given") # {}
       /\ fn = "then" /\ scen.phases.when => ScenReturns("when") # {}
  /\ \A k \in ScenCalls("when") : scen.log[k].args = <<GivenProduced>>
  /\ \A k \in ScenCalls("then") :
       scen.log[k].args = <<WhenProduced, GivenProduced>>
  /\ scen.phases.given # "fn" => ScenCalls("given") = {}
  /\ ~scen.phases.when => ScenCalls("when") = {}
  /\ scen.pc = "passed" => ScenReturns("then") # {}

\* a scenario with all three phases passed: when got the context "ctxB"
\* and returned "resA", then got both
C32_Witness ==
  /\ scen.pc = "passed"
  /\ scen.phases.given = "fn"
  /\ scen.phases.when
  /\ GivenProduced = "ctxB"
  /\ WhenProduced = "resA"
  /\ \E k \in ScenCalls("then") : scen.log[k].args = <<"resA", "ctxB">>

\* C33: in a level scenario run with a cleanup function, cleanup is
\* called at most once, it has been called once the phases are over
\* (then returned, or a phase threw), the call comes directly after
\* the return of then or after the throw of a phase, and no phase is
\* called after it.
C33_CleanupOnceAfterPhases ==
  scen.phases.cleanup
  => /\ Cardinality(ScenCalls("cleanup")) <= 1
     /\ ScenReturns("then") # {} \/ PhaseThrew # {}
        => Cardinality(ScenCalls("cleanup")) = 1
     /\ scen.pc \in {"passed", "failed"}
        => Cardinality(ScenCalls("cleanup")) = 1
     /\ \A k \in ScenCalls("cleanup") :
          /\ k > 1
          /\ (k - 1) \in ScenReturns("then") \cup PhaseThrew
          /\ PhaseThrew = {} => (k - 1) \in ScenReturns("then")
          /\ \A j \in (k + 1)..Len(scen.log) :
               scen.log[j].fn = "cleanup" /\ scen.log[j].ev # "call"

\* the when phase of a scenario threw, cleanup was called once and has
\* returned, the run failed
C33_Witness ==
  /\ scen.phases.cleanup
  /\ scen.pc = "failed"
  /\ \E k \in PhaseThrew : scen.log[k].fn = "when"
  /\ Cardinality(ScenCalls("cleanup")) = 1
  /\ ScenReturns("cleanup") # {}
  /\ ScenCalls("then") = {}

\* C35: for a ready descriptor with both a signal and a url no fetch is
\* ever issued and so no response of the url is ever seen, the
\* readiness promise resolves only when the output has contained the
\* signal, and neither the promise nor startService fails with the
\* configuration error.
C35_BothMeansSignalOnly ==
  config[1] = "both"
  => /\ ready[1].inflight = 0
     /\ ~ghost[1].urlOk
     /\ ready[1].promise = "resolved" => ghost[1].sigEver
     /\ ready[1].err.kind # "config"
     /\ call[1].err.kind # "config"

\* a service with both a signal and a url was started, printed the
\* signal and was returned
C35_Witness ==
  /\ config[1] = "both"
  /\ call[1].pc = "returned"
  /\ ghost[1].sigEver
  /\ Includes(GetOutput(1), ReadySignal)

\* C38: once the readiness promise has resolved the start timer is not
\* armed, and a service that startService has returned was sent no
\* signal by the start timer, in that state and in every later one,
\* under the signal and under the url strategy.
C38_ReadyCancelsStartTimer ==
  /\ ready[1].promise = "resolved" => ~ready[1].timeout
  /\ call[1].pc = "returned"
     => /\ TimeoutKills(1) = <<>>
        /\ ~ghost[1].timerFired

\* a service with a url was returned after a successful poll and is
\* still running
C38_Witness ==
  /\ config[1] = "url"
  /\ call[1].pc = "returned"
  /\ ghost[1].urlOk
  /\ proc[1].status = "running"
  /\ stops[1] = <<>>

\* C36: in every state in which the process of a returned service has
\* terminated and its exit has been delivered to the host, whatever the
\* cause (an exit code, a kill by stop, by the start timer or by the
\* sweep, a signal from outside), isAlive() is false.
C36_TerminatedMeansNotAlive ==
  (call[1].pc = "returned" /\ proc[1].status = "reaped")
  => ~IsAlive(proc[1])

\* C37: in every state in which a stop() on a service has resolved, a
\* stop() made while an earlier one was still waiting included, the
\* process is not running any more or a SIGKILL has been delivered to
\* it.
C37_ResolvedStopMeansGone ==
  \A k \in 1..Len(stops[1]) :
    stops[1][k].st = "resolved"
    => \/ proc[1].status # "running"
       \/ \E n \in 1..Len(log[1]) :
            log[1][n].sig = "SIGKILL" /\ log[1][n].ok

\* -------------------------------------------------------- startProcess
\* resolve(handle) and reject(error) of the startProcess promise
MpResolve(m) ==
  IF m.promise = "pending" THEN [m EXCEPT !.promise = "resolved"] ELSE m
MpReject(m, e) ==
  IF m.promise = "pending"
  THEN [m EXCEPT !.promise = "rejected", !.err = e] ELSE m

\* the process after spawn, for a command the OS can start or cannot
Spawned(ok) ==
  IF ok THEN [NoProc EXCEPT !.status = "running"]
  ELSE [NoProc EXCEPT !.status = "failed", !.cause = SpawnErrno]

\* The test calls startProcess(options): spawn, then the executor arms
\* the start timer and attaches onData and the error and exit listeners.
CallStartProcess(ok) ==
  /\ mp.promise = "none"
  /\ mp' = [mp EXCEPT !.promise = "pending", !.proc = Spawned(ok),
                      !.timeout = TRUE, !.listening = TRUE]
  /\ UNCHANGED <<svcVars, perf, srv, mf, prov, scen>>

\* nextTick after a failed spawn: the handle closes and 'error' is
\* emitted, no 'exit'.  The error listener: clearTimeout; reject.
ProcessErrorEvent ==
  /\ mp.proc.status = "failed"
  /\ mp' = MpReject([mp EXCEPT !.proc.status = "reaped",
                               !.timeout = FALSE], "spawn")
  /\ UNCHANGED <<svcVars, perf, srv, mf, prov, scen>>

\* onData, for a chunk of either stream: stdout += chunk; when stdout
\* includes the ready signal: clearTimeout, both listeners off, resolve.
ProcessData(chunk) ==
  /\ mp.proc.status \in {"running", "dead", "reaped"}
  /\ mp.proc.cause # SpawnErrno
  /\ mp.listening
  /\ Len(mp.out) + Len(chunk) <= MaxOut
  /\ LET m == [mp EXCEPT !.out = @ \o chunk]
     IN  mp' = IF Includes(m.out, ReadySignal)
               THEN MpResolve([m EXCEPT !.timeout = FALSE,
                                        !.listening = FALSE])
               ELSE m
  /\ UNCHANGED <<svcVars, perf, srv, mf, prov, scen>>

\* The child exits by itself with an exit code.
ProcessExits(code) ==
  /\ mp.proc.status = "running"
  /\ mp' = [mp EXCEPT !.proc.status = "dead", !.proc.cause = code]
  /\ UNCHANGED <<svcVars, perf, srv, mf, prov, scen>>

\* The child is terminated by a signal: a crash, a signal from outside,
\* or a SIGTERM it was sent and did not handle.
ProcessSignalled ==
  /\ mp.proc.status = "running"
  /\ mp' = [mp EXCEPT !.proc.status = "dead", !.proc.cause = "signal"]
  /\ UNCHANGED <<svcVars, perf, srv, mf, prov, scen>>

\* the exit listener of a kill() call: res()
KillOnExit(c) == [c EXCEPT !.st = "resolved"]

\* The exit listener of startProcess: clearTimeout(timeout); reject when
\* code !== null && code !== 0.
OnProcessExit(m, code) ==
  IF code # Null /\ code # "0"
  THEN MpReject([m EXCEPT !.timeout = FALSE], "exited")
  ELSE [m EXCEPT !.timeout = FALSE]

\* The 'exit' event: exitCode or signalCode is set, the handle closes,
\* and the listeners run: startProcess's own, then the one of every
\* kill() call that is waiting.
ProcessExitEvent ==
  /\ mp.proc.status = "dead"
  /\ LET m == [mp EXCEPT !.proc.status = "reaped"]
     IN  mp' = [OnProcessExit(m, ExitCode(m.proc)) EXCEPT
                  !.kills = [k \in 1..Len(@) |-> KillOnExit(@[k])]]
  /\ UNCHANGED <<svcVars, perf, srv, mf, prov, scen>>

\* The start timer fires: proc.kill(); reject(did not emit ... within).
ProcessStartTimeout ==
  /\ mp.timeout
  /\ mp.proc.status # "failed"
  /\ mp' = MpReject([mp EXCEPT
                       !.timeout = FALSE,
                       !.proc = Kill(@, "SIGTERM"),
                       !.log = Append(@, KillEntry(mp.proc, "SIGTERM",
                                                   "timeout", 0))],
                    "timeout")
  /\ UNCHANGED <<svcVars, perf, srv, mf, prov, scen>>

\* the guard of kill(): proc.killed || proc.exitCode !== null
KillReturnsEarly(p) == p.killed \/ ExitCode(p) # Null

\* The callback of the 5 s timer of the k-th kill() call:
\* if (!proc.killed) proc.kill("SIGKILL")
ForceKill(m, k) ==
  LET m1 == [m EXCEPT !.kills[k].timer = FALSE]
  IN  IF ~m.proc.killed
      THEN [m1 EXCEPT !.proc = Kill(@, "SIGKILL"),
                      !.log = Append(@, KillEntry(m.proc, "SIGKILL",
                                                  "kill", k))]
      ELSE m1

\* The test calls kill() on the ManagedProcess it was given: res() at
\* once when KillReturnsEarly; otherwise the exit listener is added,
\* SIGTERM is sent and the 5 s timer is armed.  pre is (history) what
\* the process was when kill() was called.
CallKill ==
  /\ mp.promise = "resolved"
  /\ Len(mp.kills) < MaxKills
  /\ mp' = IF KillReturnsEarly(mp.proc)
           THEN [mp EXCEPT !.kills =
                   Append(@, [st |-> "resolved", timer |-> FALSE,
                              pre |-> mp.proc.status])]
           ELSE [mp EXCEPT
                   !.kills = Append(@, [st |-> "waiting", timer |-> TRUE,
                                        pre |-> mp.proc.status]),
                   !.proc = Kill(@, "SIGTERM"),
                   !.log = Append(@, KillEntry(mp.proc, "SIGTERM", "kill",
                                               Len(mp.kills) + 1))]
  /\ UNCHANGED <<svcVars, perf, srv, mf, prov, scen>>

\* The 5 s timer of the k-th kill() call fires.
OnForceKillTimer(k) ==
  /\ k \in 1..Len(mp.kills)
  /\ mp.kills[k].timer
  /\ mp' = ForceKill(mp, k)
  /\ UNCHANGED <<svcVars, perf, srv, mf, prov, scen>>

ProcessNext ==
  \/ \E ok \in BOOLEAN : CallStartProcess(ok)
  \/ ProcessErrorEvent
  \/ \E c \in Chars : ProcessData(<<c>>)
  \/ \E code \in ExitCodes : ProcessExits(code)
  \/ ProcessSignalled
  \/ ProcessExitEvent
  \/ ProcessStartTimeout
  \/ CallKill
  \/ \E k \in 1..MaxKills : OnForceKillTimer(k)

SpecProcess == Init /\ [][ProcessNext]_vars

\* Timers that are armed fire, and the 'error' and 'exit' events of a
\* child that failed to start or has terminated are delivered.  Nothing
\* makes a child print, exit or die.
FairSpecProcess ==
  /\ SpecProcess
  /\ WF_vars(ProcessErrorEvent)
  /\ WF_vars(ProcessExitEvent)
  /\ WF_vars(ProcessStartTimeout)
  /\ \A k \in 1..MaxKills : WF_vars(OnForceKillTimer(k))

\* the k-th kill() call has been made, on a process that was running /
\* has resolved
KillCalledOnRunning(k) ==
  Len(mp.kills) >= k /\ mp.kills[k].pre = "running"
KillResolved(k) == Len(mp.kills) >= k /\ mp.kills[k].st = "resolved"

\* C34: every kill() call made on the handle startProcess returned while
\* the process is running is eventually resolved, whatever the process
\* does with the SIGTERM it is sent: when it has not exited by the time
\* the 5 s timer fires it is sent SIGKILL.
C34_KillEventuallyResolves ==
  \A k \in 1..MaxKills : KillCalledOnRunning(k) ~> KillResolved(k)

\* C39: every startProcess call is eventually settled: its promise does
\* not stay pending, whatever the process does before the ready signal
\* (prints it, exits with a code, is terminated by a signal, fails to
\* start, stays silent until the start timer fires).
C39_StartProcessSettles ==
  (mp.promise = "pending") ~> (mp.promise \in {"resolved", "rejected"})

====
